---- MODULE Spec2Model ----
(***************************************************************************)
(* Payment lifecycle and employee review workflow of the banking portal.   *)
(* The store is the Payment collection; every action is one controller of  *)
(* backend/src/controllers (paymentController.ts, employeeController.ts).  *)
(* Strings that the code inspects (reason, reasonCode) are sequences of    *)
(* one-character strings, so that trim() and toLowerCase() are computed.   *)
(***************************************************************************)
EXTENDS Integers, Sequences, FiniteSets, TLC

VARIABLES payments, clock, res, inflight, snapshot, attempts, rateLimits, now, admitted, verdict,
          checked, listing, account, logins, evaluated

\* What the validation endpoint and the paged listing leave behind, and the
\* user account with the login requests in flight.
annex == <<checked, listing, account, logins, evaluated>>

vars == <<payments, clock, res, inflight, snapshot, attempts, rateLimits, now, admitted, verdict, annex>>

\* What no controller of the backend touches: the snapshot of the store kept
\* for comparisons, the rate limiters with their wall clock, and the annex.
backdrop == <<snapshot, attempts, rateLimits, now, admitted, verdict, annex>>

----------------------------------------------------------------------------
(* Bounds *)

\* Longest auditLog a payment may reach before appending operations stop.
MaxAudit == 2

\* Longest ids array of one bulk request.
MaxBulk == 2

\* The largest number of documents a paged listing has to choose from.
MaxMatched == 3

----------------------------------------------------------------------------
(* Values *)

\* null / undefined of a text value (never a real string: its element is
\* not a single character).
Null == <<"null">>

\* null of a Date field; Date values are readings of the clock, from 1 on.
NoDate == 0

\* null of an id or name field.
None == "none"

\* A slot of the collection holding no document.
NoPayment == [status |-> "absent"]

Customers == {"cust1", "cust2"}

Employees == {"emp1"}

\* The user of a valid token that carries no role.
Roleless == "anon"

\* req.user.role of the token, None when the token has none.
Role(u) == IF u \in Employees THEN "employee" ELSE IF u \in Customers THEN "customer" ELSE None

\* req.user.email of the token.
Email(u) == IF u = "emp1" THEN "emp1@bank" ELSE IF u = "cust1" THEN "cust1@mail" ELSE "cust2@mail"

\* The _id the store gives to documents, in creation order.
ObjectIds == <<"p1">>

\* A well-formed ObjectId that no document has.
UnknownId == "p9"

\* A string that is not a 24-hex ObjectId.
MalformedId == "zz"

IdInputs == {ObjectIds[i] : i \in 1..Len(ObjectIds)} \cup {UnknownId, MalformedId}

ObjectIdIsValid(id) == id # MalformedId

----------------------------------------------------------------------------
(* String functions of the runtime *)

UpperChars == <<"A","B","C","D","E","F","G","H","I","J","K","L","M","N","O","P","Q","R","S","T","U","V","W","X","Y","Z">>

LowerChars == <<"a","b","c","d","e","f","g","h","i","j","k","l","m","n","o","p","q","r","s","t","u","v","w","x","y","z">>

IsSpace(ch) == ch \in {" ", "\t", "\n"}

UpperSet == {UpperChars[i] : i \in 1..26}

LowerSet == {LowerChars[i] : i \in 1..26}

\* The lower-case letter of each upper-case letter, and the converse.
LowerTable == [ch \in UpperSet |-> LowerChars[CHOOSE i \in 1..26 : UpperChars[i] = ch]]

UpperTable == [ch \in LowerSet |-> UpperChars[CHOOSE i \in 1..26 : LowerChars[i] = ch]]

LowerOf(ch) == IF ch \in UpperSet THEN LowerTable[ch] ELSE ch

UpperOf(ch) == IF ch \in LowerSet THEN UpperTable[ch] ELSE ch

toLowerCase(s) == [i \in 1..Len(s) |-> LowerOf(s[i])]

toUpperCase(s) == [i \in 1..Len(s) |-> UpperOf(s[i])]

RECURSIVE trimStart(_)
trimStart(s) == IF s # <<>> /\ IsSpace(Head(s)) THEN trimStart(Tail(s)) ELSE s

RECURSIVE trimEnd(_)
trimEnd(s) == IF s # <<>> /\ IsSpace(s[Len(s)]) THEN trimEnd(SubSeq(s, 1, Len(s) - 1)) ELSE s

trim(s) == trimEnd(trimStart(s))

\* JavaScript falsiness of an optional string: undefined, null or ''.
Falsy(s) == s = Null \/ s = <<>>

\* (s || '')
OrEmpty(s) == IF Falsy(s) THEN <<>> ELSE s

\* (x || null)
OrNull(s) == IF Falsy(s) THEN Null ELSE s

----------------------------------------------------------------------------
(* Reason Code Registry *)

REASON_CODES == <<
  <<"I","n","s","u","f","f","i","c","i","e","n","t"," ","d","o","c","s">>,
  <<"A","M","L"," ","f","l","a","g">>,
  <<"I","n","v","a","l","i","d"," ","r","e","c","i","p","i","e","n","t"," ","d","e","t","a","i","l","s">>,
  <<"C","o","m","p","l","i","a","n","c","e"," ","h","o","l","d">>,
  <<"R","i","s","k"," ","r","e","v","i","e","w">>,
  <<"D","u","p","l","i","c","a","t","e"," ","p","a","y","m","e","n","t">>,
  <<"F","u","n","d","i","n","g"," ","i","s","s","u","e">> >>

\* c.toLowerCase() of every registry entry c.
LowerReasonCodes == {toLowerCase(REASON_CODES[i]) : i \in 1..Len(REASON_CODES)}

isValidReasonCode(code) ==
  IF Falsy(code) THEN FALSE
  ELSE LET normalized == toLowerCase(trim(code))
       IN  normalized \in LowerReasonCodes

----------------------------------------------------------------------------
(* Request inputs *)

Users == Customers \cup Employees

\* Every holder of a valid token.
Callers == Users \cup {Roleless}

\* The x-action-confirm header of a request: absent, 'true', 'TRUE', 'no'.
ConfirmInputs == {Null, <<"t","r","u","e">>, <<"T","R","U","E">>, <<"n","o">>}

\* reasonCode of a request body: absent, a registry code written in another
\* case and padded, and a code outside the registry.
ReasonCodeInputs == {
  Null,
  <<" ","r","i","s","k"," ","R","E","V","I","E","W">>,
  <<"n","o","t","-","a","-","r","e","a","l","-","c","o","d","e">> }

\* maxlength of PaymentSchema.failureReason, reasonCode and escalationNotes.
MaxFailureReason == 500

MaxReasonCode == 100

MaxEscalationNotes == 1000

\* A reason one character longer than failureReason may be.
LongReason == [i \in 1..(MaxFailureReason + 1) |-> "x"]

\* reason of a request body: absent, two characters once trimmed, a padded
\* reason of five characters, and one too long to be stored.
ReasonInputs == {
  Null,
  <<" ","a","b"," ">>,
  <<" ","f","r","a","u","d"," ">>,
  LongReason }

----------------------------------------------------------------------------
(* Payment documents *)

Stored == {id \in DOMAIN payments : payments[id] # NoPayment}

\* Payment.findById(id)
findById(id) == IF id \in DOMAIN payments THEN payments[id] ELSE NoPayment

\* A new document with the schema defaults of PaymentSchema.
NewPayment(user, t) ==
  [ status           |-> "pending",
    userId           |-> user,
    createdAt        |-> t,
    updatedAt        |-> t,
    processedAt      |-> NoDate,
    failureReason    |-> Null,
    reasonCode       |-> Null,
    deletedAt        |-> NoDate,
    deletedByUserId  |-> None,
    deletedByName    |-> None,
    assignedToUserId |-> None,
    assignedToName   |-> None,
    escalated        |-> FALSE,
    escalatedAt      |-> NoDate,
    escalationNotes  |-> Null,
    notes            |-> <<>>,
    auditLog         |-> <<>> ]

\* One auditLog entry as the employee controllers build it.
AuditEntry(user, action, t, details) ==
  [ actorId |-> user, actorName |-> Email(user), action |-> action, timestamp |-> t, details |-> details ]

\* The reading of new Date() during the current request.
Now == clock + 1

\* res.status(code).json({ message }) of a single-item request.
Reply(op, user, id, code, message) ==
  [ op |-> op, user |-> user, id |-> id, status |-> code, message |-> message, results |-> <<>> ]

\* The response object of a request that is not being served.
NoResponse == [op |-> "none", user |-> None, id |-> None, status |-> 0, message |-> "", results |-> <<>>]

\* Requests are served one at a time: a handler starts on a fresh response.
Idle == res = NoResponse

\* A request that answers without saving anything.
Refuse(op, user, id, code, message) ==
  /\ Idle
  /\ res' = Reply(op, user, id, code, message)
  /\ UNCHANGED <<inflight, backdrop>>
  /\ UNCHANGED <<payments, clock>>

\* The paths of a modified document that the validators of PaymentSchema
\* reject when it is saved (the texts of notes and audit entries stay far
\* below their limits in every request modelled here).
SaveErrors(doc) ==
  {path \in {"failureReason", "reasonCode", "escalationNotes"} :
     /\ doc[path] # Null
     /\ Len(doc[path]) > (CASE path = "failureReason" -> MaxFailureReason
                            [] path = "reasonCode" -> MaxReasonCode
                            [] OTHER -> MaxEscalationNotes)}

\* A save() that removes the document from the collection.
SavedAsRemoval(stored, doc, t) == NoPayment

\* The document that save() writes (timestamps: true): a document with a
\* modified path gets the time of the save as its updatedAt.
Saved(stored, doc, t) == IF doc = stored THEN doc ELSE [doc EXCEPT !.updatedAt = t]

\* payment.save() of the loaded and modified document, then the 200 answer;
\* a save that throws lands in the handler's catch block, which answers 500.
SaveAndReply(op, user, id, doc, message) ==
  IF SaveErrors(doc) # {}
  THEN Refuse(op, user, id, 500, "Internal server error.")
  ELSE /\ Idle
       /\ Len(doc.auditLog) <= MaxAudit
       /\ payments' = [payments EXCEPT ![id] = Saved(@, doc, Now)]
       /\ clock' = clock + 1
       /\ res' = Reply(op, user, id, 200, message)
       /\ UNCHANGED <<inflight, backdrop>>

----------------------------------------------------------------------------
(* Employee Review Service: single-item transitions *)

\* employeeCancelPayment leaving processedAt alone, as the customer's
\* cancelPayment does.
CancelledDocUnstamped(doc, user, reason, reasonCode, t) ==
  [doc EXCEPT !.status = "cancelled",
              !.reasonCode = reasonCode,
              !.failureReason = OrNull(trim(OrEmpty(reason))),
              !.auditLog = Append(@, AuditEntry(user, "cancel", t, <<"reasonCode=">> \o reasonCode))]

\* The fields employeeCancelPayment assigns before save().
CancelledDoc(doc, user, reason, reasonCode, t) ==
  [doc EXCEPT !.status = "cancelled",
              !.processedAt = t,
              !.reasonCode = reasonCode,
              !.failureReason = OrNull(trim(OrEmpty(reason))),
              !.auditLog = Append(@, AuditEntry(user, "cancel", t, <<"reasonCode=">> \o reasonCode))]

\* The status check of employeeCancelPayment.
CancelAllowsStatus(status) == status = "pending" \/ status = "processing"

employeeCancelPayment(user, id, reason, reasonCode) ==
  LET payment == findById(id) IN
  IF ~ObjectIdIsValid(id) THEN Refuse("cancel", user, id, 400, "Invalid payment ID.")
  ELSE IF payment = NoPayment THEN Refuse("cancel", user, id, 404, "Payment not found.")
  ELSE IF ~CancelAllowsStatus(payment.status)
    THEN Refuse("cancel", user, id, 400, "Only pending or processing payments can be cancelled.")
  ELSE IF ~isValidReasonCode(reasonCode)
    THEN Refuse("cancel", user, id, 400, "Valid reasonCode is required for cancellation.")
  ELSE SaveAndReply("cancel", user, id, CancelledDoc(payment, user, reason, reasonCode, Now), "Payment cancelled successfully.")

\* A validate that puts the payment in processing.
ValidatedDocInProcessing(doc, t) ==
  [doc EXCEPT !.status = "processing", !.processedAt = t, !.failureReason = Null]

\* The fields employeeValidatePayment assigns before save().
ValidatedDoc(doc, t) ==
  [doc EXCEPT !.status = "completed", !.processedAt = t, !.failureReason = Null]

\* The status check of employeeRejectPayment used for validation.
ValidateAllowsStatusLoose(status) == status # "completed"

\* The status check of employeeValidatePayment.
ValidateAllowsStatus(status) == status = "pending" \/ status = "processing"

employeeValidatePayment(user, id) ==
  LET payment == findById(id) IN
  IF ~ObjectIdIsValid(id) THEN Refuse("validate", user, id, 400, "Invalid payment ID.")
  ELSE IF payment = NoPayment THEN Refuse("validate", user, id, 404, "Payment not found.")
  ELSE IF ~ValidateAllowsStatus(payment.status)
    THEN Refuse("validate", user, id, 400, "Only pending or processing payments can be validated.")
  ELSE SaveAndReply("validate", user, id, ValidatedDoc(payment, Now), "Payment validated successfully.")

\* employeeRejectPayment saving without an audit entry, as validate does.
RejectedDocUnaudited(doc, user, reason, reasonCode, t) ==
  [doc EXCEPT !.status = "failed",
              !.failureReason = trim(reason),
              !.reasonCode = reasonCode,
              !.processedAt = t]

\* The fields employeeRejectPayment assigns before save().
RejectedDoc(doc, user, reason, reasonCode, t) ==
  [doc EXCEPT !.status = "failed",
              !.failureReason = trim(reason),
              !.reasonCode = reasonCode,
              !.processedAt = t,
              !.auditLog = Append(@, AuditEntry(user, "reject", t, <<"reasonCode=">> \o reasonCode))]

\* The status check of employeeRejectPayment.
RejectRefusesStatus(status) == status = "completed"

employeeRejectPayment(user, id, reason, reasonCode) ==
  LET payment == findById(id) IN
  IF ~isValidReasonCode(reasonCode)
    THEN Refuse("reject", user, id, 400, "Valid reasonCode is required for rejection.")
  ELSE IF Falsy(reason) \/ Len(trim(reason)) < 3
    THEN Refuse("reject", user, id, 400, "Reason is required and must be at least 3 characters.")
  ELSE IF ~ObjectIdIsValid(id) THEN Refuse("reject", user, id, 400, "Invalid payment ID.")
  ELSE IF payment = NoPayment THEN Refuse("reject", user, id, 404, "Payment not found.")
  ELSE IF RejectRefusesStatus(payment.status)
    THEN Refuse("reject", user, id, 400, "Completed payments cannot be rejected.")
  ELSE SaveAndReply("reject", user, id, RejectedDoc(payment, user, reason, reasonCode, Now), "Payment rejected successfully.")

\* An update of the reason that stores whatever reasonCode it is given.
ReasonUpdatedDocAnyCode(doc, user, reason, reasonCode, t) ==
  [doc EXCEPT !.failureReason = trim(reason),
              !.reasonCode = reasonCode,
              !.auditLog = Append(@, AuditEntry(user, "update_reason", t, <<"reasonCode=">> \o OrEmpty(reasonCode)))]

\* The fields employeeUpdateReason assigns before save().
ReasonUpdatedDoc(doc, user, reason, reasonCode, t) ==
  [doc EXCEPT !.failureReason = trim(reason),
              !.reasonCode = IF isValidReasonCode(reasonCode) THEN reasonCode ELSE @,
              !.auditLog = Append(@, AuditEntry(user, "update_reason", t, <<"reasonCode=">> \o OrEmpty(reasonCode)))]

employeeUpdateReason(user, id, reason, reasonCode) ==
  LET payment == findById(id) IN
  IF Falsy(reason) \/ Len(trim(reason)) < 3
    THEN Refuse("updateReason", user, id, 400, "Reason is required and must be at least 3 characters.")
  ELSE IF ~ObjectIdIsValid(id) THEN Refuse("updateReason", user, id, 400, "Invalid payment ID.")
  ELSE IF payment = NoPayment THEN Refuse("updateReason", user, id, 404, "Payment not found.")
  ELSE IF ~(payment.status = "cancelled" \/ payment.status = "failed")
    THEN Refuse("updateReason", user, id, 400, "Reason can only be added to cancelled or rejected payments.")
  ELSE SaveAndReply("updateReason", user, id, ReasonUpdatedDoc(payment, user, reason, reasonCode, Now), "Reason updated successfully.")

\* The fields a soft-delete assigns before save(); origin is the details
\* text, 'soft-delete' or 'bulk soft-delete'.
TrashedDoc(doc, user, origin, t) ==
  [doc EXCEPT !.deletedAt = t,
              !.deletedByUserId = user,
              !.deletedByName = Email(user),
              !.auditLog = Append(@, AuditEntry(user, "trash", t, <<origin>>))]

\* The status check of employeeDeletePayment.
DeleteAllowsStatus(status) == status = "completed" \/ status = "cancelled" \/ status = "failed"

employeeDeletePayment(user, id) ==
  LET payment == findById(id) IN
  IF ~ObjectIdIsValid(id) THEN Refuse("delete", user, id, 400, "Invalid payment ID.")
  ELSE IF payment = NoPayment THEN Refuse("delete", user, id, 404, "Payment not found.")
  ELSE IF ~DeleteAllowsStatus(payment.status)
    THEN Refuse("delete", user, id, 400, "Only completed, cancelled, or rejected payments can be deleted.")
  ELSE SaveAndReply("delete", user, id, TrashedDoc(payment, user, "soft-delete", Now), "Payment moved to Trash.")

\* A restore that leaves the name of the employee who deleted the payment.
RestoredDocKeepsName(doc, user, origin, t) ==
  [doc EXCEPT !.deletedAt = NoDate,
              !.deletedByUserId = None,
              !.auditLog = Append(@, AuditEntry(user, "restore", t, <<origin>>))]

\* The fields a restore assigns before save(); origin is the details text.
RestoredDoc(doc, user, origin, t) ==
  [doc EXCEPT !.deletedAt = NoDate,
              !.deletedByUserId = None,
              !.deletedByName = None,
              !.auditLog = Append(@, AuditEntry(user, "restore", t, <<origin>>))]

\* The deletedAt check of employeeRestorePayment.
RestoreRefuses(doc) == doc.deletedAt = NoDate

employeeRestorePayment(user, id) ==
  LET payment == findById(id) IN
  IF ~ObjectIdIsValid(id) THEN Refuse("restore", user, id, 400, "Invalid payment ID.")
  ELSE IF payment = NoPayment THEN Refuse("restore", user, id, 404, "Payment not found.")
  ELSE IF RestoreRefuses(payment) THEN Refuse("restore", user, id, 400, "Payment is not in Trash.")
  ELSE SaveAndReply("restore", user, id, RestoredDoc(payment, user, "restore from Trash", Now), "Payment restored successfully.")

----------------------------------------------------------------------------
(* Middleware in front of the handlers *)

\* authorizeRole that only asks for some role.
authorizeAnyRole(allowed, op, user, next) ==
  IF Role(user) = None THEN Refuse(op, user, None, 403, "Access denied. Missing role.")
  ELSE next

\* authorizeRole(allowed): 403 unless the token's role is one of allowed,
\* otherwise next(). The middleware does not look at the route parameters.
authorizeRole(allowed, op, user, next) ==
  IF Role(user) = None THEN Refuse(op, user, None, 403, "Access denied. Missing role.")
  ELSE IF Role(user) \notin allowed THEN Refuse(op, user, None, 403, "Access denied. Insufficient permissions.")
  ELSE next

\* stepUpConfirmAction that accepts any header that is present.
stepUpConfirmAnyValue(confirm, op, user, next) ==
  IF Falsy(confirm)
  THEN Refuse(op, user, None, 401, "Step-up confirmation required for this action.")
  ELSE next

\* stepUpConfirmAction: 401 unless the x-action-confirm header reads 'true'
\* once lower-cased, otherwise next().
stepUpConfirmAction(confirm, op, user, next) ==
  IF toLowerCase(OrEmpty(confirm)) # <<"t","r","u","e">>
  THEN Refuse(op, user, None, 401, "Step-up confirmation required for this action.")
  ELSE next

----------------------------------------------------------------------------
(* Employee Review Service: bulk action *)

BulkActions == {"validate", "reject", "cancel", "trash", "restore"}

\* The fields the 'cancel' case of employeeBulkAction assigns.
BulkCancelledDoc(doc, user, reason, reasonCode, t) ==
  [doc EXCEPT !.status = "cancelled",
              !.reasonCode = reasonCode,
              !.failureReason = OrNull(trim(OrEmpty(reason))),
              !.processedAt = t,
              !.auditLog = Append(@, AuditEntry(user, "cancel", t, <<"bulk; reasonCode=">> \o reasonCode))]

\* A bulk 'reject' that records the reason and leaves the status alone.
BulkRejectedDocKeepsStatus(doc, user, reason, reasonCode, t) ==
  [doc EXCEPT !.reasonCode = reasonCode,
              !.failureReason = OrNull(trim(OrEmpty(reason))),
              !.processedAt = t,
              !.auditLog = Append(@, AuditEntry(user, "reject", t, <<"bulk; reasonCode=">> \o reasonCode))]

\* The fields the 'reject' case of employeeBulkAction assigns.
BulkRejectedDoc(doc, user, reason, reasonCode, t) ==
  [doc EXCEPT !.status = "failed",
              !.reasonCode = reasonCode,
              !.failureReason = OrNull(trim(OrEmpty(reason))),
              !.processedAt = t,
              !.auditLog = Append(@, AuditEntry(user, "reject", t, <<"bulk; reasonCode=">> \o reasonCode))]

\* One iteration of the for loop of employeeBulkAction on the document
\* loaded for id: the document to save (NoPayment when nothing is saved)
\* and the results entries pushed (none for an action without a case).
BulkCase(action, doc, id, user, reason, reasonCode, t) ==
  CASE action = "cancel" ->
         IF ~isValidReasonCode(reasonCode)
         THEN [save |-> NoPayment, push |-> <<[id |-> id, ok |-> FALSE, error |-> "invalid_reason_code"]>>]
         ELSE [save |-> BulkCancelledDoc(doc, user, reason, reasonCode, t), push |-> <<[id |-> id, ok |-> TRUE, error |-> None]>>]
    [] action = "reject" ->
         IF ~isValidReasonCode(reasonCode)
         THEN [save |-> NoPayment, push |-> <<[id |-> id, ok |-> FALSE, error |-> "invalid_reason_code"]>>]
         ELSE [save |-> BulkRejectedDoc(doc, user, reason, reasonCode, t), push |-> <<[id |-> id, ok |-> TRUE, error |-> None]>>]
    [] action = "trash" ->
         [save |-> TrashedDoc(doc, user, "bulk soft-delete", t), push |-> <<[id |-> id, ok |-> TRUE, error |-> None]>>]
    [] action = "restore" ->
         [save |-> RestoredDoc(doc, user, "bulk restore", t), push |-> <<[id |-> id, ok |-> TRUE, error |-> None]>>]
    [] OTHER -> [save |-> NoPayment, push |-> <<>>]

\* The for loop of employeeBulkAction over the remaining ids, from the
\* store, clock and results reached so far. A save that throws leaves the
\* loop (threw), with the earlier saves already in the store.
RECURSIVE BulkLoop(_, _, _, _, _, _, _, _)
BulkLoop(store, t, results, ids, action, user, reason, reasonCode) ==
  IF ids = <<>> THEN [store |-> store, clock |-> t, results |-> results, threw |-> FALSE]
  ELSE LET id == Head(ids)
           doc == IF id \in DOMAIN store THEN store[id] ELSE NoPayment
       IN IF ~ObjectIdIsValid(id)
            THEN BulkLoop(store, t, Append(results, [id |-> id, ok |-> FALSE, error |-> "invalid_id"]),
                          Tail(ids), action, user, reason, reasonCode)
          ELSE IF doc = NoPayment
            THEN BulkLoop(store, t, Append(results, [id |-> id, ok |-> FALSE, error |-> "not_found"]),
                          Tail(ids), action, user, reason, reasonCode)
          ELSE LET step == BulkCase(action, doc, id, user, reason, reasonCode, t + 1)
               IN IF step.save = NoPayment
                    THEN BulkLoop(store, t, results \o step.push, Tail(ids), action, user, reason, reasonCode)
                  ELSE IF SaveErrors(step.save) # {}
                    THEN [store |-> store, clock |-> t, results |-> results, threw |-> TRUE]
                  ELSE BulkLoop([store EXCEPT ![id] = Saved(@, step.save, t + 1)], t + 1, results \o step.push,
                                Tail(ids), action, user, reason, reasonCode)

\* The response of employeeBulkAction: the results collected by the loop, or
\* the 500 of the catch block around the whole loop.
BulkReply(user, action, out) ==
  IF out.threw
  THEN [op |-> "bulk", user |-> user, id |-> None, status |-> 500,
        message |-> "Internal server error while performing bulk action.", results |-> <<>>]
  ELSE [op |-> "bulk", user |-> user, id |-> None, status |-> 200, message |-> action, results |-> out.results]

employeeBulkAction(user, action, ids, reason, reasonCode) ==
  IF ids = <<>>
    THEN /\ Idle
         /\ res' = [op |-> "bulk", user |-> user, id |-> None, status |-> 400, message |-> "ids array is required.", results |-> <<>>]
         /\ UNCHANGED <<inflight, backdrop>>
         /\ UNCHANGED <<payments, clock>>
  ELSE LET out == BulkLoop(payments, clock, <<>>, ids, action, user, reason, reasonCode)
       IN /\ Idle
          /\ \A id \in Stored : Len(out.store[id].auditLog) <= MaxAudit
          /\ payments' = out.store
          /\ clock' = out.clock
          /\ res' = BulkReply(user, action, out)
          /\ UNCHANGED <<inflight, backdrop>>

----------------------------------------------------------------------------
(* Employee Review Service: assignment and escalation *)

\* assigneeUserId of a request body: absent, or an employee.
AssigneeInputs == {None} \cup Employees

AssignedDoc(doc, user, assigneeUserId, assigneeName, t) ==
  IF assigneeUserId = None
  THEN [doc EXCEPT !.assignedToUserId = None,
                   !.assignedToName = None,
                   !.auditLog = Append(@, AuditEntry(user, "unassign", t, Null))]
  ELSE [doc EXCEPT !.assignedToUserId = assigneeUserId,
                   !.assignedToName = assigneeName,
                   !.auditLog = Append(@, AuditEntry(user, "assign", t, <<"to=", assigneeUserId>>))]

employeeAssignPayment(user, id, assigneeUserId) ==
  LET payment == findById(id) IN
  IF ~ObjectIdIsValid(id) THEN Refuse("assign", user, id, 400, "Invalid payment ID.")
  ELSE IF payment = NoPayment THEN Refuse("assign", user, id, 404, "Payment not found.")
  ELSE SaveAndReply("assign", user, id, AssignedDoc(payment, user, assigneeUserId, "", Now), "Assignment updated.")

\* Bodies of an escalation request: escalate with a padded note, and
\* de-escalate without notes.
EscalationInputs == {
  [escalated |-> TRUE, notes |-> <<" ","v","i","p"," ">>],
  [escalated |-> FALSE, notes |-> Null] }

\* An escalation that stamps escalatedAt whatever escalated says.
EscalatedDocAlwaysStamped(doc, user, escalated, notes, t) ==
  [doc EXCEPT !.escalated = escalated,
              !.escalatedAt = t,
              !.escalationNotes = OrNull(trim(OrEmpty(notes))),
              !.auditLog = Append(@, AuditEntry(user, IF escalated THEN "escalate" ELSE "deescalate", t, Null))]

EscalatedDoc(doc, user, escalated, notes, t) ==
  [doc EXCEPT !.escalated = escalated,
              !.escalatedAt = IF escalated THEN t ELSE NoDate,
              !.escalationNotes = OrNull(trim(OrEmpty(notes))),
              !.auditLog = Append(@, AuditEntry(user, IF escalated THEN "escalate" ELSE "deescalate", t, Null))]

employeeEscalatePayment(user, id, escalated, notes) ==
  LET payment == findById(id) IN
  IF ~ObjectIdIsValid(id) THEN Refuse("escalate", user, id, 400, "Invalid payment ID.")
  ELSE IF payment = NoPayment THEN Refuse("escalate", user, id, 404, "Payment not found.")
  ELSE SaveAndReply("escalate", user, id, EscalatedDoc(payment, user, escalated, notes, Now), "Escalation updated.")

----------------------------------------------------------------------------
(* Employee Review Service: notes and their redaction *)

Digits == {"0","1","2","3","4","5","6","7","8","9"}

Letters == UpperSet \cup LowerSet

\* Length of the longest run of characters of class starting at s[i],
\* counting at most max characters.
RECURSIVE RunLen(_, _, _, _)
RunLen(s, i, class, max) ==
  IF max = 0 \/ i > Len(s) \/ s[i] \notin class THEN 0
  ELSE 1 + RunLen(s, i + 1, class, max - 1)

\* The largest e in lo..hi with s[e] in class, or 0.
RECURSIVE LastIn(_, _, _, _)
LastIn(s, lo, hi, class) ==
  IF hi < lo THEN 0
  ELSE IF s[hi] \in class THEN hi
  ELSE LastIn(s, lo, hi - 1, class)

IbanPlaceholder == <<"[","R","E","D","A","C","T","E","D","-","I","B","A","N","]">>

SwiftPlaceholder == <<"[","R","E","D","A","C","T","E","D","-","S","W","I","F","T","]">>

EmailPlaceholder == <<"[","R","E","D","A","C","T","E","D","-","E","M","A","I","L","]">>

PhonePlaceholder == <<"[","R","E","D","A","C","T","E","D","-","P","H","O","N","E","]">>

\* The first pattern of redactSensitive without its i flag.
IbanMatchCaseSensitive(s, i) ==
  LET tail == RunLen(s, i + 4, UpperSet \cup Digits, 30)
  IN IF /\ i + 3 <= Len(s)
        /\ s[i] \in UpperSet /\ s[i + 1] \in UpperSet
        /\ s[i + 2] \in Digits /\ s[i + 3] \in Digits
        /\ tail >= 11
     THEN 4 + tail ELSE 0

\* Length of the match of /[A-Z]{2}\d{2}[A-Z0-9]{11,30}/i at s[i], or 0.
IbanMatch(s, i) ==
  LET tail == RunLen(s, i + 4, Letters \cup Digits, 30)
  IN IF /\ i + 3 <= Len(s)
        /\ s[i] \in Letters /\ s[i + 1] \in Letters
        /\ s[i + 2] \in Digits /\ s[i + 3] \in Digits
        /\ tail >= 11
     THEN 4 + tail ELSE 0

\* Length of the match of /[A-Z0-9]{8,11}/ at s[i], or 0.
SwiftMatch(s, i) ==
  LET run == RunLen(s, i, UpperSet \cup Digits, 11)
  IN IF run >= 8 THEN run ELSE 0

EmailLocal == Letters \cup Digits \cup {".", "_", "%", "+", "-"}

EmailDomain == Letters \cup Digits \cup {".", "-"}

\* The largest position of a '.' in lo..hi that is followed by at least two
\* letters, or 0.
RECURSIVE LastTldDot(_, _, _)
LastTldDot(s, lo, hi) ==
  IF hi < lo THEN 0
  ELSE IF s[hi] = "." /\ RunLen(s, hi + 1, Letters, 2) = 2 THEN hi
  ELSE LastTldDot(s, lo, hi - 1)

\* Length of the match of the e-mail pattern at s[i], or 0.
EmailMatch(s, i) ==
  LET local  == RunLen(s, i, EmailLocal, Len(s))
      at     == i + local
      domain == RunLen(s, at + 1, EmailDomain, Len(s))
      dot    == LastTldDot(s, at + 2, at + domain)
  IN IF local >= 1 /\ at <= Len(s) /\ s[at] = "@" /\ domain >= 1 /\ dot # 0
     THEN (dot + RunLen(s, dot + 1, Letters, Len(s))) - i + 1 ELSE 0

PhoneBody == Digits \cup {" ", "\t", "\n", "(", ")", "-"}

\* Length of the match of /\+?\d[\d\s()-]{7,}\d/ at s[i], or 0.
PhoneMatch(s, i) ==
  LET first == IF s[i] = "+" THEN i + 1 ELSE i
      body  == RunLen(s, first + 1, PhoneBody, Len(s))
      last  == LastIn(s, first + 8, first + body, Digits)
  IN IF first <= Len(s) /\ s[first] \in Digits /\ last # 0
     THEN last - i + 1 ELSE 0

\* s.replace(/pattern/g, ...) for the four patterns of redactSensitive,
\* scanning from position i.
RECURSIVE ReplaceAll(_, _, _)
ReplaceAll(s, i, kind) ==
  IF i > Len(s) THEN <<>>
  ELSE LET n == CASE kind = "iban"  -> IbanMatch(s, i)
                  [] kind = "swift" -> SwiftMatch(s, i)
                  [] kind = "email" -> EmailMatch(s, i)
                  [] OTHER          -> PhoneMatch(s, i)
           m == SubSeq(s, i, i + n - 1)
           out == CASE kind = "iban"  -> IbanPlaceholder
                    [] kind = "swift" -> IF n = 8 \/ n = 11 THEN SwiftPlaceholder ELSE m
                    [] kind = "email" -> EmailPlaceholder
                    [] OTHER          -> PhonePlaceholder
       IN IF n = 0 THEN <<s[i]>> \o ReplaceAll(s, i + 1, kind)
          ELSE out \o ReplaceAll(s, i + n, kind)

redactSensitive(text) ==
  ReplaceAll(ReplaceAll(ReplaceAll(ReplaceAll(OrEmpty(text), 1, "iban"), 1, "swift"), 1, "email"), 1, "phone")

\* Bodies of an addNote request: no text, and a text holding an IBAN
\* together with a mention.
NoteInputs == {
  [text |-> Null, mentions |-> <<>>],
  [text |-> <<"I","B","A","N"," ","G","B","2","9","N","W","B","K","6","0","1","6","1","3","3","1","9","2","6","8","1","9"," ">>,
   mentions |-> <<[userId |-> "emp1", name |-> None]>>] }

\* An addNote that keeps only the latest note.
NotedDocLatestOnly(doc, user, text, mentions, t) ==
  LET safeText == redactSensitive(trim(text))
  IN [doc EXCEPT !.notes = << [ text |-> safeText, authorId |-> user, authorName |-> Email(user), createdAt |-> t,
                                mentions |-> <<>> ] >>,
                 !.auditLog = Append(@, AuditEntry(user, "add_note", t, <<"length=", ToString(Len(safeText))>>))]

NotedDoc(doc, user, text, mentions, t) ==
  LET safeText == redactSensitive(trim(text))
  IN [doc EXCEPT !.notes = Append(@, [ text |-> safeText, authorId |-> user, authorName |-> Email(user), createdAt |-> t,
                                       mentions |-> [k \in 1..Len(mentions) |->
                                          [userId |-> mentions[k].userId,
                                           name |-> IF mentions[k].name = None THEN "" ELSE mentions[k].name]] ]),
                 !.auditLog = Append(@, AuditEntry(user, "add_note", t, <<"length=", ToString(Len(safeText))>>))]

employeeAddNote(user, id, text, mentions) ==
  LET payment == findById(id) IN
  IF Falsy(text) \/ Len(trim(text)) < 1 THEN Refuse("addNote", user, id, 400, "Note text is required.")
  ELSE IF ~ObjectIdIsValid(id) THEN Refuse("addNote", user, id, 400, "Invalid payment ID.")
  ELSE IF payment = NoPayment THEN Refuse("addNote", user, id, 404, "Payment not found.")
  ELSE SaveAndReply("addNote", user, id, NotedDoc(payment, user, text, mentions, Now), "Note added successfully.")

----------------------------------------------------------------------------
(* Validation Layer (utils/validation.ts) *)

\* s.replace(/\s/g, '')
stripSpaces(s) == SelectSeq(s, LAMBDA ch : ~IsSpace(ch))

DigitValue(ch) == CHOOSE d \in 0..9 : ToString(d) = ch

\* charCodeAt(0) - 55 of an upper-case letter: A=10 .. Z=35.
LetterValue(ch) == 9 + CHOOSE k \in 1..26 : UpperChars[k] = ch

\* The mod-97 loop of validateIBAN over the rearranged string; a letter
\* contributes its two decimal digits.
RECURSIVE Mod97(_, _, _)
Mod97(s, i, remainder) ==
  IF i > Len(s) THEN remainder
  ELSE IF s[i] \in UpperSet
    THEN Mod97(s, i + 1, ((((remainder * 10) + (LetterValue(s[i]) \div 10)) % 97) * 10 + (LetterValue(s[i]) % 10)) % 97)
    ELSE Mod97(s, i + 1, ((remainder * 10) + DigitValue(s[i])) % 97)

\* A validateIBAN that stops after the length and the format.
validateIBANFormatOnly(iban) ==
  IF Falsy(iban) THEN FALSE
  ELSE LET cleanIban == toUpperCase(stripSpaces(iban))
       IN /\ Len(cleanIban) >= 15 /\ Len(cleanIban) <= 34
          /\ cleanIban[1] \in UpperSet /\ cleanIban[2] \in UpperSet
          /\ cleanIban[3] \in Digits /\ cleanIban[4] \in Digits
          /\ \A i \in 5..Len(cleanIban) : cleanIban[i] \in UpperSet \cup Digits

validateIBAN(iban) ==
  IF Falsy(iban) THEN FALSE
  ELSE LET cleanIban == toUpperCase(stripSpaces(iban))
           rearranged == SubSeq(cleanIban, 5, Len(cleanIban)) \o SubSeq(cleanIban, 1, 4)
       IN /\ Len(cleanIban) >= 15 /\ Len(cleanIban) <= 34
          /\ cleanIban[1] \in UpperSet /\ cleanIban[2] \in UpperSet
          /\ cleanIban[3] \in Digits /\ cleanIban[4] \in Digits
          /\ \A i \in 5..Len(cleanIban) : cleanIban[i] \in UpperSet \cup Digits
          /\ Mod97(rearranged, 1, 0) = 1

validateSWIFT(swift) ==
  IF Falsy(swift) THEN FALSE
  ELSE LET cleanSwift == toUpperCase(stripSpaces(swift))
       IN /\ Len(cleanSwift) = 8 \/ Len(cleanSwift) = 11
          /\ \A i \in 1..6 : cleanSwift[i] \in UpperSet
          /\ \A i \in 7..Len(cleanSwift) : cleanSwift[i] \in UpperSet \cup Digits

\* supportedCurrencies of validateCurrency.
SupportedCurrencies == {
  <<"U","S","D">>, <<"E","U","R">>, <<"G","B","P">>, <<"J","P","Y">>, <<"A","U","D">>,
  <<"C","A","D">>, <<"C","H","F">>, <<"C","N","Y">>, <<"S","E","K">>, <<"N","Z","D">>,
  <<"M","X","N">>, <<"S","G","D">>, <<"H","K","D">>, <<"N","O","K">>, <<"T","R","Y">>,
  <<"Z","A","R">>, <<"B","R","L">>, <<"I","N","R">>, <<"K","R","W">>, <<"P","L","N">> }

validateCurrency(currency) ==
  IF Falsy(currency) THEN FALSE ELSE toUpperCase(currency) \in SupportedCurrencies

\* The enum of PaymentSchema.currency.
SchemaCurrencies == {
  <<"U","S","D">>, <<"E","U","R">>, <<"G","B","P">>, <<"J","P","Y">>, <<"C","A","D">>,
  <<"A","U","D">>, <<"C","H","F">>, <<"C","N","Y">>, <<"S","E","K">>, <<"N","Z","D">>,
  <<"Z","A","R">>, <<"B","R","L">>, <<"I","N","R">>, <<"K","R","W">>, <<"P","L","N">> }

----------------------------------------------------------------------------
(* Customer Payment Service (paymentController.ts) *)

\* Numbers are counted in thousandths, which is exact for every amount the
\* requests below carry.
AmountScale == 10 * 10 * 10

RECURSIVE DigitsValue(_, _)
DigitsValue(s, acc) == IF s = <<>> THEN acc ELSE DigitsValue(Tail(s), acc * 10 + DigitValue(Head(s)))

\* parseFloat(s) for decimal literals without exponent: leading white space,
\* an optional sign, digits, an optional fraction; everything after the
\* longest such prefix is ignored, and no digit at all gives NaN.
parseFloat(s) ==
  LET t       == trimStart(OrEmpty(s))
      signed  == t # <<>> /\ Head(t) \in {"+", "-"}
      u       == IF signed THEN Tail(t) ELSE t
      nInt    == RunLen(u, 1, Digits, Len(u))
      hasDot  == nInt + 1 <= Len(u) /\ u[nInt + 1] = "."
      nFrac   == IF hasDot THEN RunLen(u, nInt + 2, Digits, Len(u)) ELSE 0
      frac3   == SubSeq(SubSeq(u, nInt + 2, nInt + 1 + nFrac) \o <<"0","0","0">>, 1, 3)
      magn    == DigitsValue(SubSeq(u, 1, nInt), 0) * AmountScale + DigitsValue(frac3, 0)
  IN IF nInt + nFrac = 0 THEN [nan |-> TRUE, value |-> 0]
     ELSE [nan |-> FALSE, value |-> IF signed /\ Head(t) = "-" THEN 0 - magn ELSE magn]

\* The ceiling 1000000 of createPayment and of PaymentSchema.amount.max.
MaxAmount == 1000000

\* The floor 0.01 of PaymentSchema.amount.min, in thousandths.
SchemaMinAmount == AmountScale \div 100

RequiredFields == <<"recipientName", "recipientEmail", "recipientIBAN", "recipientSWIFT",
                    "recipientAddress", "recipientCity", "recipientCountry",
                    "amount", "currency", "reference", "purpose">>

\* A createPayment that answers with the first error it finds.
CreateErrorsFailFast(body) ==
  LET numericAmount == parseFloat(body.amount)
      missing == SelectSeq(RequiredFields, LAMBDA f : Falsy(body[f]))
  IN IF missing # <<>> THEN <<Head(missing)>>
     ELSE IF ~validateIBAN(body.recipientIBAN) THEN <<"recipientIBAN">>
     ELSE IF ~validateSWIFT(body.recipientSWIFT) THEN <<"recipientSWIFT">>
     ELSE IF numericAmount.nan \/ numericAmount.value <= 0 \/ numericAmount.value > MaxAmount * AmountScale
       THEN <<"amount">>
     ELSE IF ~validateCurrency(body.currency) THEN <<"currency">>
     ELSE <<>>

\* The errors array createPayment collects, as the sequence of its fields.
CreateErrors(body) ==
  LET numericAmount == parseFloat(body.amount)
      missing == SelectSeq(RequiredFields, LAMBDA f : Falsy(body[f]))
  IN missing
     \o (IF ~Falsy(body.recipientIBAN) /\ ~validateIBAN(body.recipientIBAN) THEN <<"recipientIBAN">> ELSE <<>>)
     \o (IF ~Falsy(body.recipientSWIFT) /\ ~validateSWIFT(body.recipientSWIFT) THEN <<"recipientSWIFT">> ELSE <<>>)
     \o (IF numericAmount.nan \/ numericAmount.value <= 0 THEN <<"amount">>
         ELSE IF numericAmount.value > MaxAmount * AmountScale THEN <<"amount">> ELSE <<>>)
     \o (IF ~Falsy(body.currency) /\ ~validateCurrency(body.currency) THEN <<"currency">> ELSE <<>>)

\* new Payment({...}) of createPayment: the normalised fields of the body
\* on top of the schema defaults (fields outside the schema are dropped).
BuiltPayment(user, body, t) ==
  [ recipientName  |-> trim(body.recipientName),
    recipientIBAN  |-> toUpperCase(stripSpaces(toUpperCase(body.recipientIBAN))),
    recipientSWIFT |-> toUpperCase(trim(toUpperCase(body.recipientSWIFT))),
    amount         |-> parseFloat(body.amount).value,
    currency       |-> toUpperCase(body.currency),
    reference      |-> trim(body.reference),
    purpose        |-> trim(body.purpose) ] @@ NewPayment(user, t)

\* The paths PaymentSchema rejects when the new document is saved.
SchemaErrors(doc) ==
  (IF doc.recipientName = <<>> \/ Len(doc.recipientName) > 100 THEN <<"recipientName">> ELSE <<>>)
  \o (IF ~validateIBAN(toUpperCase(stripSpaces(doc.recipientIBAN))) THEN <<"recipientIBAN">> ELSE <<>>)
  \o (IF ~validateSWIFT(toUpperCase(stripSpaces(doc.recipientSWIFT))) THEN <<"recipientSWIFT">> ELSE <<>>)
  \o (IF doc.amount < SchemaMinAmount \/ doc.amount > MaxAmount * AmountScale THEN <<"amount">> ELSE <<>>)
  \o (IF doc.currency \notin SchemaCurrencies THEN <<"currency">> ELSE <<>>)
  \o (IF doc.reference = <<>> \/ Len(doc.reference) > 140 THEN <<"reference">> ELSE <<>>)
  \o (IF doc.purpose = <<>> \/ Len(doc.purpose) > 255 THEN <<"purpose">> ELSE <<>>)

\* The _id of the next document, None when the collection is full.
NextObjectId ==
  IF \E i \in 1..Len(ObjectIds) : payments[ObjectIds[i]] = NoPayment
  THEN ObjectIds[CHOOSE i \in 1..Len(ObjectIds) :
                   payments[ObjectIds[i]] = NoPayment /\ \A j \in 1..(i - 1) : payments[ObjectIds[j]] # NoPayment]
  ELSE None

createPayment(user, body) ==
  LET errors == CreateErrors(body)
      payment == BuiltPayment(user, body, Now)
  IN IF errors # <<>>
       THEN /\ Idle
            /\ res' = [op |-> "create", user |-> user, id |-> None, status |-> 400, message |-> "Validation failed.", results |-> errors]
            /\ UNCHANGED <<inflight, backdrop>>
            /\ UNCHANGED <<payments, clock>>
     ELSE IF SchemaErrors(payment) # <<>>
       THEN /\ Idle
            /\ res' = [op |-> "create", user |-> user, id |-> None, status |-> 400, message |-> "Validation failed.", results |-> SchemaErrors(payment)]
            /\ UNCHANGED <<inflight, backdrop>>
            /\ UNCHANGED <<payments, clock>>
     ELSE /\ Idle
          /\ NextObjectId # None
          /\ payments' = [payments EXCEPT ![NextObjectId] = payment]
          /\ clock' = clock + 1
          /\ res' = [op |-> "create", user |-> user, id |-> NextObjectId, status |-> 201, message |-> "Payment created successfully.", results |-> <<>>]
          /\ UNCHANGED <<inflight, backdrop>>

\* findOne without the userId condition.
findAnyOwner(id, user) == findById(id)

\* Payment.findOne({ _id: id, userId: user })
findOwn(id, user) ==
  IF id \in DOMAIN payments /\ payments[id] # NoPayment /\ payments[id].userId = user THEN payments[id] ELSE NoPayment

\* The field cancelPayment assigns before save().
SelfCancelledDoc(doc) == [doc EXCEPT !.status = "cancelled"]

\* cancelPayment without its status check.
SelfCancelIgnoresStatus(status) == TRUE

\* The status check of cancelPayment.
SelfCancelAllowsStatus(status) == status = "pending"

cancelPayment(user, id) ==
  LET payment == findOwn(id, user) IN
  IF ~ObjectIdIsValid(id) THEN Refuse("selfCancel", user, id, 500, "Internal server error while cancelling payment.")
  ELSE IF payment = NoPayment THEN Refuse("selfCancel", user, id, 404, "Payment not found.")
  ELSE IF ~SelfCancelAllowsStatus(payment.status) THEN Refuse("selfCancel", user, id, 400, "Only pending payments can be cancelled.")
  ELSE SaveAndReply("selfCancel", user, id, SelfCancelledDoc(payment), "Payment cancelled successfully.")

----------------------------------------------------------------------------
(* Queries *)

\* Payment.find(filter).sort({ createdAt: -1 }): the _ids of the documents
\* that match (hits), newest first.
find(hits) ==
  CHOOSE seq \in [1..Cardinality(hits) -> hits] :
    \A i, j \in 1..Cardinality(hits) :
      i < j => payments[seq[i]].createdAt > payments[seq[j]].createdAt

\* A 200 answer that carries the documents with the given _ids.
ReplyWith(op, user, id, ids) ==
  /\ Idle
  /\ res' = [op |-> op, user |-> user, id |-> id, status |-> 200, message |-> "", results |-> ids]
  /\ UNCHANGED <<inflight, backdrop>>
  /\ UNCHANGED <<payments, clock>>

\* getPayments: the caller's payments (first page; the store never holds
\* more documents than one page).
getPayments(user) ==
  LET OfCaller(doc) == doc.userId = user
  IN ReplyWith("listOwn", user, None, find({id \in Stored : OfCaller(payments[id])}))

getPaymentById(user, id) ==
  LET payment == findOwn(id, user) IN
  IF ~ObjectIdIsValid(id) THEN Refuse("getById", user, id, 500, "Internal server error while retrieving payment.")
  ELSE IF payment = NoPayment THEN Refuse("getById", user, id, 404, "Payment not found.")
  ELSE ReplyWith("getById", user, id, <<id>>)

\* Query strings of the employee listing: includeDeleted, status, escalated
\* and assignedTo, each absent (None) or given.
ListQueries ==
  [includeDeleted : {None, "true", "false", "TRUE"},
   status         : {None, "cancelled"},
   escalated      : {None, "true"},
   assignedTo     : {None, "me"}]

\* The filter of getAllPayments without its deletedAt condition.
ListFilterWithTrash(user, q, doc) ==
  /\ q.status = None \/ doc.status = q.status
  /\ q.escalated = None \/ doc.escalated = (q.escalated = "true")
  /\ q.assignedTo # "me" \/ doc.assignedToUserId = user

\* The filter getAllPayments builds from the query string.
ListFilter(user, q, doc) ==
  /\ (IF q.includeDeleted = None THEN "false" ELSE q.includeDeleted) = "true" \/ doc.deletedAt = NoDate
  /\ q.status = None \/ doc.status = q.status
  /\ q.escalated = None \/ doc.escalated = (q.escalated = "true")
  /\ q.assignedTo # "me" \/ doc.assignedToUserId = user

getAllPayments(user, q) ==
  LET Matches(doc) == ListFilter(user, q, doc)
  IN ReplyWith("list", user, None, find({id \in Stored : Matches(payments[id])}))

\* parseInt(s, 10): leading white space, an optional sign, digits; what
\* follows the digits is ignored, and no digit at all gives NaN.
parseInt(s) ==
  LET t      == trimStart(OrEmpty(s))
      signed == t # <<>> /\ Head(t) \in {"+", "-"}
      u      == IF signed THEN Tail(t) ELSE t
      n      == RunLen(u, 1, Digits, Len(u))
      magn   == DigitsValue(SubSeq(u, 1, n), 0)
  IN IF n = 0 THEN [nan |-> TRUE, value |-> 0]
     ELSE [nan |-> FALSE, value |-> IF signed /\ Head(t) = "-" THEN 0 - magn ELSE magn]

Min(a, b) == IF a < b THEN a ELSE b

Max(a, b) == IF a > b THEN a ELSE b

\* (parseInt(raw || fallback, 10) || fallback), the fallback written as a number.
ParsedOr(raw, fallback) ==
  LET n == parseInt(raw)
  IN IF Falsy(raw) \/ n.nan \/ n.value = 0 THEN fallback ELSE n.value

MaxPage == 1000

MaxLimit == 100

DefaultLimit == 10

\* The limit of getAllPayments without its ceiling.
LimitOfUncapped(limitRaw) == Max(1, ParsedOr(limitRaw, DefaultLimit))

\* page and limit of getAllPayments.
PageOf(pageRaw) == Max(1, Min(MaxPage, ParsedOr(pageRaw, 1)))

LimitOf(limitRaw) == Max(1, Min(MaxLimit, ParsedOr(limitRaw, DefaultLimit)))

\* The createdAt stamps of matched, newest first.
RECURSIVE SortDesc(_)
SortDesc(matched) ==
  IF matched = {} THEN <<>>
  ELSE LET newest == CHOOSE x \in matched : \A y \in matched : y <= x
       IN <<newest>> \o SortDesc(matched \ {newest})

\* No listing asked for yet.
NotListed == [matched |-> {}, pageRaw |-> Null, limitRaw |-> Null, data |-> <<>>,
              pagination |-> [page |-> 0, limit |-> 0, total |-> 0, pages |-> 0]]

\* The answer of getAllPayments when the documents that pass its filter are
\* those created at the stamps of matched: find().sort().limit().skip(),
\* countDocuments() and the pagination block.
Paginated(matched, pageRaw, limitRaw) ==
  LET page  == PageOf(pageRaw)
      limit == LimitOf(limitRaw)
      skip  == (page - 1) * limit
      total == Cardinality(matched)
  IN [ matched |-> matched, pageRaw |-> pageRaw, limitRaw |-> limitRaw,
       data |-> SubSeq(SortDesc(matched), skip + 1, Min(total, skip + limit)),
       pagination |-> [page |-> page, limit |-> limit, total |-> total,
                       pages |-> (total + limit - 1) \div limit] ]

\* Milliseconds after which getQueueHealth calls an open payment stale, and
\* at risk.
StaleAfterMs == 48 * 60 * 60 * 1000

AtRiskAfterMs == 24 * 60 * 60 * 1000

\* The second query of getQueueHealth without its $gte bound.
AtRiskWithoutLowerBound(doc, t) ==
  /\ doc.deletedAt = NoDate
  /\ doc.status \in {"pending", "processing"}
  /\ doc.createdAt < t - AtRiskAfterMs

\* The two queries of getQueueHealth, with t the reading of new Date().
IsStale(doc, t) ==
  /\ doc.deletedAt = NoDate
  /\ doc.status \in {"pending", "processing"}
  /\ doc.createdAt < t - StaleAfterMs

IsAtRisk(doc, t) ==
  /\ doc.deletedAt = NoDate
  /\ doc.status \in {"pending", "processing"}
  /\ doc.createdAt < t - AtRiskAfterMs /\ doc.createdAt >= t - StaleAfterMs

\* getQueueHealth: the answer carries the two counts, stale then atRisk.
getQueueHealth(user, t) ==
  /\ Idle
  /\ res' = [op |-> "queueHealth", user |-> user, id |-> None, status |-> 200, message |-> "Queue health.",
             results |-> << Cardinality({id \in Stored : IsStale(payments[id], t)}),
                            Cardinality({id \in Stored : IsAtRisk(payments[id], t)}) >>]
  /\ UNCHANGED <<inflight, backdrop>>
  /\ UNCHANGED <<payments, clock>>

\* Query strings of the export: those of the listing, and a status that is
\* not one of the five of the schema.
ExportQueries ==
  [includeDeleted : {None, "true"},
   status         : {None, "cancelled", "archived"},
   escalated      : {None, "true"},
   assignedTo     : {None, "me"}]

\* The filter exportPayments builds from the query string: includeDeleted,
\* and status when it is one of the five of the schema.
ExportFilter(user, q, doc) ==
  /\ (IF q.includeDeleted = None THEN "false" ELSE q.includeDeleted) = "true" \/ doc.deletedAt = NoDate
  /\ (q.status = None \/ q.status \notin {"pending", "processing", "completed", "failed", "cancelled"})
       \/ doc.status = q.status

\* exportPayments: one CSV row per payment that matches, newest first.
exportPayments(user, q) ==
  LET Matches(doc) == ExportFilter(user, q, doc)
  IN ReplyWith("export", user, None, find({id \in Stored : Matches(payments[id])}))

\* getPaymentAudit: the auditLog of one payment.
getPaymentAudit(user, id) ==
  IF ~ObjectIdIsValid(id) THEN Refuse("audit", user, id, 400, "Invalid payment ID.")
  ELSE IF findById(id) = NoPayment THEN Refuse("audit", user, id, 404, "Payment not found.")
  ELSE ReplyWith("audit", user, id, <<id>>)

----------------------------------------------------------------------------
(* Two employee requests in flight: each handler awaits findById, then     *)
(* checks and changes its own copy and awaits save()                       *)

\* The two requests that may overlap: a validate and a cancel. Only the
\* cancel rewrites an array (auditLog), so the version key of the document
\* never stands between the two saves.
Racers == {"validate", "cancel"}

\* A request slot with no request in it.
NoRequest ==
  [stage |-> "none", user |-> None, id |-> None, reason |-> Null, reasonCode |-> Null,
   loaded |-> NoPayment, saved |-> NoPayment, status |-> 0, savedAt |-> NoDate]

\* save() writing the whole copy of the request over the stored document.
SaveWholeCopy(stored, loaded, copy) == copy

\* save() of a loaded document: an update that sets the paths whose value
\* the request changed since it loaded the document, and no other path.
SaveModified(stored, loaded, copy) ==
  [path \in DOMAIN stored |-> IF copy[path] # loaded[path] THEN copy[path] ELSE stored[path]]

\* The handler up to its first await: the id check, then findById.
Load(r) ==
  /\ inflight[r].stage = "none"
  /\ \E user \in Employees, id \in IdInputs,
        reason \in (IF r = "cancel" THEN ReasonInputs ELSE {Null}),
        reasonCode \in (IF r = "cancel" THEN ReasonCodeInputs ELSE {Null}) :
       inflight' = [inflight EXCEPT ![r] =
         IF ~ObjectIdIsValid(id)
         THEN [NoRequest EXCEPT !.stage = "done", !.user = user, !.id = id, !.status = 400]
         ELSE [NoRequest EXCEPT !.stage = "loaded", !.user = user, !.id = id, !.reason = reason,
                                !.reasonCode = reasonCode, !.loaded = findById(id)]]
  /\ UNCHANGED <<payments, clock, res, backdrop>>

\* The checks the handler makes on its copy after findById has answered:
\* the status code of the refusal, 0 when it goes on to save.
RefusalOf(r, req) ==
  IF req.loaded = NoPayment THEN 404
  ELSE IF r = "validate" THEN (IF ValidateAllowsStatus(req.loaded.status) THEN 0 ELSE 400)
  ELSE IF ~CancelAllowsStatus(req.loaded.status) THEN 400
  ELSE IF ~isValidReasonCode(req.reasonCode) THEN 400
  ELSE 0

\* The copy as the handler has changed it when it calls save().
CopyOf(r, req) ==
  IF r = "validate" THEN ValidatedDoc(req.loaded, Now)
  ELSE CancelledDoc(req.loaded, req.user, req.reason, req.reasonCode, Now)

\* The rest of the handler: checks, assignments, save() and the answer.
Finish(r) ==
  LET req == inflight[r] IN
  /\ req.stage = "loaded"
  /\ IF RefusalOf(r, req) # 0
     THEN /\ inflight' = [inflight EXCEPT ![r].stage = "done", ![r].status = RefusalOf(r, req)]
          /\ UNCHANGED <<payments, clock>>
     ELSE IF SaveErrors(CopyOf(r, req)) # {}
     THEN /\ inflight' = [inflight EXCEPT ![r].stage = "done", ![r].status = 500]
          /\ UNCHANGED <<payments, clock>>
     ELSE /\ payments' = [payments EXCEPT ![req.id] = SaveModified(@, req.loaded, Saved(req.loaded, CopyOf(r, req), Now))]
          /\ clock' = clock + 1
          /\ inflight' = [inflight EXCEPT ![r].stage = "done", ![r].status = 200,
                                           ![r].saved = Saved(req.loaded, CopyOf(r, req), Now), ![r].savedAt = Now]
  /\ UNCHANGED <<res, backdrop>>

\* The answer has been sent.
Close(r) ==
  /\ inflight[r].stage = "done"
  /\ inflight' = [inflight EXCEPT ![r] = NoRequest]
  /\ UNCHANGED <<payments, clock, res, backdrop>>

----------------------------------------------------------------------------
(* Rate limiters: the form limiter of the frontend (RateLimiter) and       *)
(* simpleRateLimit, both a list of admitted timestamps per identifier      *)

\* Identifiers (e-mail addresses, keys) the limiters are asked about.
Identifiers == {"a@bank", "b@bank"}

Limiters == {"form", "simple"}

\* The keys simpleRateLimit is asked about.
Keys == {"a@bank"}

\* RateLimiter.maxAttempts and RateLimiter.windowMs.
MaxAttempts == 5

WindowMs == 15 * 60 * 1000

\* The maxRequests and windowMs that the callers of simpleRateLimit pass.
SimpleMaxRequests == 2

SimpleWindowMs == WindowMs

\* The instants of Date.now() at which the limiters are asked: around the
\* two ends of one window: an attempt made at 0 has left the window at
\* WindowMs, an attempt made at 1 has not.
Instants == {0, 1, WindowMs}

NoVerdict == [limiter |-> "none", identifier |-> "none", allowed |-> FALSE, at |-> 0]

\* Max and Window of each limiter.
MaxOf(limiter) == IF limiter = "form" THEN MaxAttempts ELSE SimpleMaxRequests

WindowOf(limiter) == IF limiter = "form" THEN WindowMs ELSE SimpleWindowMs

\* A limiter that keeps the attempts whose age equals the window.
RecentAttemptsInclusive(userAttempts, t) ==
  SelectSeq(userAttempts, LAMBDA time : t - time <= WindowMs)

\* userAttempts.filter(time => now - time < this.windowMs)
RecentAttempts(userAttempts, t) ==
  SelectSeq(userAttempts, LAMBDA time : t - time < WindowMs)

\* requests.filter(timestamp => timestamp > windowStart)
ValidRequests(requests, t, windowMs) ==
  LET windowStart == t - windowMs
  IN SelectSeq(requests, LAMBDA timestamp : timestamp > windowStart)

\* The answer of a limiter and its bookkeeping of what it admitted.
Answer(limiter, identifier, allowed) ==
  /\ verdict' = [limiter |-> limiter, identifier |-> identifier, allowed |-> allowed, at |-> now]
  /\ admitted' = IF allowed THEN [admitted EXCEPT ![limiter][identifier] = Append(@, now)]
                 ELSE admitted
  /\ UNCHANGED <<payments, clock, res, inflight, snapshot, now, annex>>

\* RateLimiter.isAllowed(identifier)
isAllowed(identifier) ==
  LET userAttempts == attempts[identifier]
      recentAttempts == RecentAttempts(userAttempts, now)
  IN IF Len(recentAttempts) >= MaxAttempts
     THEN /\ Answer("form", identifier, FALSE)
          /\ UNCHANGED <<attempts, rateLimits>>
     ELSE /\ attempts' = [attempts EXCEPT ![identifier] = Append(recentAttempts, now)]
          /\ Answer("form", identifier, TRUE)
          /\ UNCHANGED rateLimits

\* simpleRateLimit(key, maxRequests, windowMs)
simpleRateLimit(key, maxRequests, windowMs) ==
  LET requests == rateLimits[key]
      validRequests == ValidRequests(requests, now, windowMs)
  IN IF Len(validRequests) >= maxRequests
     THEN /\ Answer("simple", key, FALSE)
          /\ UNCHANGED <<attempts, rateLimits>>
     ELSE /\ rateLimits' = [rateLimits EXCEPT ![key] = Append(validRequests, now)]
          /\ Answer("simple", key, TRUE)
          /\ UNCHANGED attempts

\* Time passes between two calls.
Elapse ==
  /\ \E t \in Instants : t > now /\ now' = t
  /\ UNCHANGED <<payments, clock, res, inflight, snapshot, attempts, rateLimits, admitted, verdict, annex>>

----------------------------------------------------------------------------
(* Login and lockout (authController.login, models/User) *)

\* securityConfig.maxLoginAttempts and securityConfig.lockoutTime.
maxLoginAttempts == 5

lockoutTime == 30 * 60 * 1000

\* Login requests that can be in flight together, all for the one account.
Sessions == {"s1", "s2"}

Passwords == {"right", "wrong"}

\* The largest loginAttempts the account is driven to.
MaxCounted == 6

\* Readings of the wall clock around one and two lockout times.
LoginInstants == {0, lockoutTime - 1, lockoutTime, 2 * lockoutTime}

\* A session without a request. stage is the await the request has reached,
\* user the document findByEmail returned, loginAttempts the value
\* incrementLoginAttempts computed, compared whether comparePassword ran.
NoLogin == [stage |-> "none", password |-> "none", user |-> [loginAttempts |-> 0, lockUntil |-> NoDate],
            loginAttempts |-> 0, compared |-> FALSE, status |-> 0]

\* What the login steps leave alone.
beyondLogin == <<payments, clock, res, inflight, snapshot, attempts, rateLimits, admitted, verdict, checked, listing>>

\* A lock check that ignores the clock.
isLockedForever(user, t) == user.lockUntil # NoDate

\* User.isLocked(user), with t the reading of new Date().
isLocked(user, t) == user.lockUntil # NoDate /\ user.lockUntil > t

\* login up to its first write: findByEmail, the lock check, comparePassword.
\* A locked account answers 423 at once; a wrong password goes on to
\* incrementLoginAttempts; a right one to resetLoginAttempts when the
\* document read shows failed attempts, and to the 200 answer otherwise.
LoginLoad(r, password) ==
  LET user == account IN
  /\ logins[r].stage = "none"
  /\ IF isLocked(user, now)
     THEN /\ logins' = [logins EXCEPT ![r] = [NoLogin EXCEPT !.stage = "done", !.password = password,
                                                            !.user = user, !.status = 423]]
          /\ UNCHANGED evaluated
     ELSE /\ logins' = [logins EXCEPT ![r] =
                 [NoLogin EXCEPT !.stage = IF password = "wrong" THEN "increment"
                                          ELSE IF user.loginAttempts > 0 THEN "reset" ELSE "done",
                                 !.password = password, !.user = user, !.compared = TRUE,
                                 !.status = IF password = "right" /\ user.loginAttempts = 0 THEN 200 ELSE 0]]
          /\ evaluated' = IF password = "wrong" /\ user.lockUntil = NoDate
                          THEN Min(evaluated + 1, maxLoginAttempts + 1) ELSE evaluated
  /\ UNCHANGED <<account, now, beyondLogin>>

\* incrementLoginAttempts: docRef.get() and the new count.
IncrementRead(r) ==
  /\ logins[r].stage = "increment"
  /\ account.loginAttempts < MaxCounted
  /\ logins' = [logins EXCEPT ![r].stage = "update", ![r].loginAttempts = account.loginAttempts + 1]
  /\ UNCHANGED <<account, evaluated, now, beyondLogin>>

\* incrementLoginAttempts: docRef.update(updateData), then the 401 answer.
IncrementWrite(r) ==
  /\ logins[r].stage = "update"
  /\ account' = [loginAttempts |-> logins[r].loginAttempts,
                 lockUntil |-> IF logins[r].loginAttempts >= maxLoginAttempts
                               THEN now + lockoutTime ELSE account.lockUntil]
  /\ logins' = [logins EXCEPT ![r].stage = "done", ![r].status = 401]
  /\ UNCHANGED <<evaluated, now, beyondLogin>>

\* resetLoginAttempts, then the 200 answer.
LoginReset(r) ==
  /\ logins[r].stage = "reset"
  /\ account' = [loginAttempts |-> 0, lockUntil |-> NoDate]
  /\ logins' = [logins EXCEPT ![r].stage = "done", ![r].status = 200]
  /\ evaluated' = 0
  /\ UNCHANGED <<now, beyondLogin>>

\* The answer has been sent.
LoginClose(r) ==
  /\ logins[r].stage = "done"
  /\ logins' = [logins EXCEPT ![r] = NoLogin]
  /\ UNCHANGED <<account, evaluated, now, beyondLogin>>

\* Time passes between two steps.
LoginWait ==
  /\ \E t \in LoginInstants : t > now /\ now' = t
  /\ UNCHANGED <<account, logins, evaluated, beyondLogin>>

----------------------------------------------------------------------------
(* The system: requests arrive one at a time, in any order *)

\* A createPayment body that passes every check, its IBAN in lower case
\* with spaces.
GoodBody ==
  [ recipientName |-> <<"A","n","n"," ","R","o","b","e","r","t","s">>,
    recipientEmail |-> <<"a","@","b",".","i","o">>,
    recipientIBAN |-> <<"g","b","2","9"," ","n","w","b","k"," ","6","0","1","6"," ","1","3","3","1"," ","9","2","6","8"," ","1","9">>,
    recipientSWIFT |-> <<"N","W","B","K","G","B","2","L">>,
    recipientAddress |-> <<"1"," ","R","d">>,
    recipientCity |-> <<"L","e","e","d","s">>,
    recipientCountry |-> <<"G","B">>,
    amount |-> <<"5","0","0","0","0",".","0","0">>,
    currency |-> <<"g","b","p">>,
    reference |-> <<"I","N","V","-","1"," ">>,
    purpose |-> <<"r","e","n","t">> ]

\* The IBAN of GoodBody with its last digit changed.
WrongCheckIban == <<"G","B","2","9","N","W","B","K","6","0","1","6","1","3","3","1","9","2","6","8","1","8">>

\* Bodies of a createPayment request: one that passes every check, and one
\* with a wrong IBAN check digit and a negative amount.
PaymentBodies ==
  {GoodBody, [GoodBody EXCEPT !.recipientIBAN = WrongCheckIban, !.amount = <<"-","5">>]}

\* More bodies of a createPayment request: GoodBody with one or two fields
\* changed.
CreateBodies ==
  PaymentBodies \cup {
    [GoodBody EXCEPT !.recipientSWIFT = <<"n","w","b","k"," ","g","b","2","l">>],
    [GoodBody EXCEPT !.recipientSWIFT = <<" ","N","W","B","K","G","B","2","L","X","X","X"," ">>],
    [GoodBody EXCEPT !.amount = <<"5","0","0","0","0",".","0","0","1">>],
    [GoodBody EXCEPT !.amount = <<"0",".","0","0","1">>],
    [GoodBody EXCEPT !.amount = <<"0">>],
    [GoodBody EXCEPT !.amount = <<"a","b","c">>],
    [GoodBody EXCEPT !.amount = <<"1","0","0","0","0","0","0",".","0","1">>],
    [GoodBody EXCEPT !.amount = <<"1","0","0","0","0","0","0">>],
    [GoodBody EXCEPT !.currency = <<"m","x","n">>],
    [GoodBody EXCEPT !.currency = <<"x","x","x">>, !.recipientSWIFT = <<"N","W","B","K">>],
    [GoodBody EXCEPT !.recipientCity = Null, !.recipientIBAN = WrongCheckIban],
    [GoodBody EXCEPT !.recipientIBAN = Null, !.reference = Null],
    [GoodBody EXCEPT !.recipientIBAN = WrongCheckIban, !.currency = <<"m","x","n">>] }

\* The IBAN of the examples, GB29 NWBK 6016 1331 9268 19.
ExampleIban == <<"G","B","2","9","N","W","B","K","6","0","1","6","1","3","3","1","9","2","6","8","1","9">>

\* ExampleIban with one of its digits replaced by a different digit.
DigitMutations ==
  {[ExampleIban EXCEPT ![i] = d] :
     i \in {k \in 1..Len(ExampleIban) : ExampleIban[k] \in Digits}, d \in Digits} \ {ExampleIban}

\* Strings of the wrong length or shape: 14 and 35 characters, a digit for
\* a country letter, a letter for a check digit, a hyphen; and the example
\* as GoodBody writes it, in lower case with spaces.
OddIbans ==
  { SubSeq(ExampleIban, 1, 14),
    ExampleIban \o SubSeq(ExampleIban, 10, 22),
    [ExampleIban EXCEPT ![1] = "1"],
    [ExampleIban EXCEPT ![4] = "X"],
    [ExampleIban EXCEPT ![9] = "-"],
    GoodBody.recipientIBAN,
    Null }

IbanInputs == {ExampleIban} \cup DigitMutations \cup OddIbans

\* No call of the validation endpoint yet.
NotChecked == [iban |-> Null, valid |-> FALSE]

\* Bodies of a bulk request: cancel and reject with every reason and
\* reasonCode, the other actions without them.
BulkBodies ==
  [action : {"cancel", "reject"}, reason : ReasonInputs, reasonCode : ReasonCodeInputs]
  \cup [action : BulkActions \ {"cancel", "reject"}, reason : {Null}, reasonCode : {Null}]

\* ids arrays of a bulk request: every array of at most MaxBulk ids.
BulkIdInputs == UNION {[1..n -> IdInputs] : n \in 0..MaxBulk}

Init ==
  /\ payments = [id \in {ObjectIds[i] : i \in 1..Len(ObjectIds)} |-> NoPayment]
  /\ clock = 0
  /\ res = NoResponse
  /\ inflight = [r \in Racers |-> NoRequest]
  /\ snapshot = [payments |-> payments, clock |-> clock]
  /\ attempts = [identifier \in Identifiers |-> <<>>]
  /\ rateLimits = [key \in Keys |-> <<>>]
  /\ now = 0
  /\ admitted = [limiter \in Limiters |-> [identifier \in (IF limiter = "form" THEN Identifiers ELSE Keys) |-> <<>>]]
  /\ verdict = NoVerdict
  /\ checked = NotChecked
  /\ listing = NotListed
  /\ account = [loginAttempts |-> 0, lockUntil |-> NoDate]
  /\ logins = [r \in Sessions |-> NoLogin]
  /\ evaluated = 0

Create == Idle /\ \E user \in Customers, body \in PaymentBodies : createPayment(user, body)

SelfCancel == Idle /\ \E user \in Users, id \in IdInputs : cancelPayment(user, id)

Validate == Idle /\ \E user \in Callers :
              authorizeRole({"employee"}, "validate", user,
                \E id \in IdInputs : employeeValidatePayment(user, id))

Reject == Idle /\ \E user \in Callers :
            authorizeRole({"employee"}, "reject", user,
              \E id \in IdInputs, reason \in ReasonInputs, reasonCode \in ReasonCodeInputs :
                employeeRejectPayment(user, id, reason, reasonCode))

Cancel == Idle /\ \E user \in Callers :
            authorizeRole({"employee"}, "cancel", user,
              \E id \in IdInputs, reason \in ReasonInputs, reasonCode \in ReasonCodeInputs :
                employeeCancelPayment(user, id, reason, reasonCode))

UpdateReason == Idle /\ \E user \in Callers :
                  authorizeRole({"employee"}, "updateReason", user,
                    \E id \in IdInputs, reason \in ReasonInputs, reasonCode \in ReasonCodeInputs :
                      employeeUpdateReason(user, id, reason, reasonCode))

\* router.delete('/payments/:id', ...) for a caller and a confirmation
\* header, whatever the id.
DeleteRoute(user, confirm) ==
  authorizeRole({"employee"}, "delete", user,
    stepUpConfirmAction(confirm, "delete", user,
      \E id \in IdInputs : employeeDeletePayment(user, id)))

Delete == Idle /\ \E user \in Callers, confirm \in ConfirmInputs : DeleteRoute(user, confirm)

Restore == Idle /\ \E user \in Callers :
             authorizeRole({"employee"}, "restore", user,
               \E id \in IdInputs : employeeRestorePayment(user, id))

\* router.post('/payments/bulk', ...) for a caller and a confirmation
\* header, whatever the body.
BulkRoute(user, confirm) ==
  authorizeRole({"employee"}, "bulk", user,
    stepUpConfirmAction(confirm, "bulk", user,
      \E body \in BulkBodies, ids \in BulkIdInputs :
        employeeBulkAction(user, body.action, ids, body.reason, body.reasonCode)))

Bulk == Idle /\ \E user \in Callers, confirm \in ConfirmInputs : BulkRoute(user, confirm)

\* The response has been sent; the next request gets its own response.
Respond ==
  /\ ~Idle
  /\ res' = NoResponse
  /\ UNCHANGED <<inflight, backdrop>>
  /\ UNCHANGED <<payments, clock>>

Assign == Idle /\ \E user \in Callers :
            authorizeRole({"employee"}, "assign", user,
              \E id \in IdInputs, assignee \in AssigneeInputs : employeeAssignPayment(user, id, assignee))

Escalate == Idle /\ \E user \in Callers :
              authorizeRole({"employee"}, "escalate", user,
                \E id \in IdInputs, body \in EscalationInputs :
                  employeeEscalatePayment(user, id, body.escalated, body.notes))

AddNote == Idle /\ \E user \in Callers :
             authorizeRole({"employee"}, "addNote", user,
               \E id \in IdInputs, body \in NoteInputs : employeeAddNote(user, id, body.text, body.mentions))

ListOwn == Idle /\ \E user \in Customers : getPayments(user)

GetById == Idle /\ \E user \in Customers, id \in IdInputs : getPaymentById(user, id)

ListAll == Idle /\ \E user \in Callers :
             authorizeRole({"employee"}, "list", user, \E q \in ListQueries : getAllPayments(user, q))

Audit == Idle /\ \E user \in Callers :
           authorizeRole({"employee"}, "audit", user, \E id \in IdInputs : getPaymentAudit(user, id))

Next ==
  \/ Create
  \/ Audit
  \/ ListOwn
  \/ GetById
  \/ ListAll
  \/ SelfCancel
  \/ Validate
  \/ Reject
  \/ Cancel
  \/ UpdateReason
  \/ Delete
  \/ Restore
  \/ Bulk
  \/ Assign
  \/ Escalate
  \/ AddNote
  \/ Respond

Spec == Init /\ [][Next]_vars

RaceLoad == \E r \in Racers : Load(r)

RaceFinish == \E r \in Racers : Finish(r)

RaceClose == \E r \in Racers : Close(r)

\* Customers create payments; a validate and a cancel of employees overlap.
RaceNext ==
  \/ Create
  \/ Respond
  \/ RaceLoad
  \/ RaceFinish
  \/ RaceClose

SpecRace == Init /\ [][RaceNext]_vars

\* POST /api/validate/iban: validateIBAN applied to the iban of the body.
CheckIban ==
  /\ \E iban \in IbanInputs : checked' = [iban |-> iban, valid |-> validateIBAN(iban)]
  /\ UNCHANGED <<payments, clock, res, inflight, snapshot, attempts, rateLimits, now, admitted, verdict, listing, account, logins, evaluated>>

IbanNext == CheckIban

SpecIban == Init /\ [][IbanNext]_vars

\* Texts of notes around the IBAN of the examples: as spec.md writes it, in
\* lower case, cut to 15 and to 14 characters, stretched to 35 characters,
\* twice in one text, glued to a letter, written in groups of four, and a
\* text without any account number.
NoteTexts ==
  { <<"I","B","A","N"," ">> \o ExampleIban \o <<" ">>,
    toLowerCase(ExampleIban),
    SubSeq(ExampleIban, 1, 15),
    SubSeq(ExampleIban, 1, 14),
    ExampleIban \o SubSeq(ExampleIban, 10, 22),
    ExampleIban \o <<",">> \o SubSeq(ExampleIban, 1, 20),
    <<"x">> \o ExampleIban \o <<".">>,
    GoodBody.recipientIBAN,
    <<"c","a","l","l"," ","m","e">>,
    Null }

AddAnyNote == Idle /\ \E user \in Callers :
                authorizeRole({"employee"}, "addNote", user,
                  \E id \in IdInputs, text \in NoteTexts : employeeAddNote(user, id, text, <<>>))

\* Employees annotate the payments customers create and cancel.
NotesNext ==
  \/ Create
  \/ SelfCancel
  \/ AddAnyNote
  \/ Respond

SpecNotes == Init /\ [][NotesNext]_vars

\* Readings of new Date() at a queue-health request, the clock counting
\* milliseconds: right after the last save, and around 24 and 48 hours later.
HealthInstants ==
  {clock + d : d \in {0, AtRiskAfterMs - 1, AtRiskAfterMs, AtRiskAfterMs + 1,
                       StaleAfterMs - 1, StaleAfterMs, StaleAfterMs + 1}}

QueueHealth == Idle /\ \E user \in Callers :
                 authorizeRole({"employee"}, "queueHealth", user,
                   \E t \in HealthInstants : getQueueHealth(user, t))

\* Payments are created, settled, trashed and restored while employees
\* watch the queue.
QueueNext ==
  \/ Create
  \/ SelfCancel
  \/ Validate
  \/ Delete
  \/ Restore
  \/ QueueHealth
  \/ Respond

SpecQueue == Init /\ [][QueueNext]_vars

\* page and limit as the query string gives them: missing, non-numeric,
\* zero, negative, small, with a fraction, with white space before and
\* letters after, above the ceiling, and huge.
PageInputs ==
  { Null, <<"a","b","c">>, <<"0">>, <<"-","3">>, <<"2">>, <<"3">>, <<"2",".","9">>,
    <<" ","2","x">>, <<"1","0","0","1">>, <<"2","0","0","0","0","0","0","0","0","0">> }

LimitInputs ==
  { Null, <<"a","b","c">>, <<"0">>, <<"-","3">>, <<"1">>, <<"2">>,
    <<"1","0","1">>, <<"5","0","0","0">> }

\* GET /payments with page and limit, over every set of at most MaxMatched
\* documents with distinct createdAt that pass the filter.
ListPage ==
  /\ \E matched \in SUBSET (1..MaxMatched), pageRaw \in PageInputs, limitRaw \in LimitInputs :
       listing' = Paginated(matched, pageRaw, limitRaw)
  /\ UNCHANGED <<payments, clock, res, inflight, snapshot, attempts, rateLimits, now, admitted, verdict, checked, account, logins, evaluated>>

PageNext == ListPage

SpecPage == Init /\ [][PageNext]_vars

\* One login request at a time.
SoloLoad == \E password \in Passwords : LoginLoad("s1", password)

SoloIncrementRead == IncrementRead("s1")

SoloIncrementWrite == IncrementWrite("s1")

SoloReset == LoginReset("s1")

SoloClose == LoginClose("s1")

LoginNext ==
  \/ SoloLoad
  \/ SoloIncrementRead
  \/ SoloIncrementWrite
  \/ SoloReset
  \/ SoloClose
  \/ LoginWait

SpecLogin == Init /\ [][LoginNext]_vars

\* Login requests for the account processed concurrently.
AnyLoad == \E r \in Sessions, password \in Passwords : LoginLoad(r, password)

AnyIncrementRead == \E r \in Sessions : IncrementRead(r)

AnyIncrementWrite == \E r \in Sessions : IncrementWrite(r)

AnyReset == \E r \in Sessions : LoginReset(r)

AnyClose == \E r \in Sessions : LoginClose(r)

LoginRaceNext ==
  \/ AnyLoad
  \/ AnyIncrementRead
  \/ AnyIncrementWrite
  \/ AnyReset
  \/ AnyClose
  \/ LoginWait

SpecLoginRace == Init /\ [][LoginRaceNext]_vars

CreateAny == Idle /\ \E user \in Customers, body \in CreateBodies : createPayment(user, body)

\* Customers create payments from many bodies, look at them and cancel them.
CreateNext ==
  \/ CreateAny
  \/ SelfCancel
  \/ ListOwn
  \/ GetById
  \/ Respond

SpecCreate == Init /\ [][CreateNext]_vars

Export == Idle /\ \E user \in Callers :
            authorizeRole({"employee"}, "export", user, \E q \in ExportQueries : exportPayments(user, q))

\* Employees list and export the payments that customers created and
\* cancelled and that employees assigned, escalated and moved to Trash.
ExportNext ==
  \/ Create
  \/ SelfCancel
  \/ Assign
  \/ Escalate
  \/ Delete
  \/ ListAll
  \/ Export
  \/ Respond

SpecExport == Init /\ [][ExportNext]_vars

\* The store is copied for a later comparison.
Snapshot ==
  /\ snapshot # [payments |-> payments, clock |-> clock]
  /\ snapshot' = [payments |-> payments, clock |-> clock]
  /\ UNCHANGED <<payments, clock, res, inflight, attempts, rateLimits, now, admitted, verdict, annex>>

\* Payments reach a final status and are moved to Trash and back.
TrashNext ==
  \/ Create
  \/ SelfCancel
  \/ Validate
  \/ Delete
  \/ Restore
  \/ Bulk
  \/ Respond
  \/ Snapshot

SpecTrash == Init /\ [][TrashNext]_vars

IsAllowed == \E identifier \in Identifiers : isAllowed(identifier)

SimpleRateLimit == \E key \in Keys : simpleRateLimit(key, SimpleMaxRequests, SimpleWindowMs)

\* The limiters are asked about identifiers while time passes.
LimiterNext ==
  \/ IsAllowed
  \/ SimpleRateLimit
  \/ Elapse

SpecLimiter == Init /\ [][LimiterNext]_vars

----------------------------------------------------------------------------
(* Properties of the payment lifecycle *)

TerminalStatuses == {"completed", "failed", "cancelled"}

\* C1: a payment whose status is completed keeps status completed in every
\* later state, whichever customer, employee or bulk operation is served.
CompletedIsForever ==
  [][\A id \in Stored : payments[id].status = "completed" => payments'[id].status = "completed"]_vars

\* C2: once the status of a payment is failed or cancelled, no operation
\* changes it to a different value.
FailedAndCancelledAreTerminal ==
  [][\A id \in Stored : payments[id].status \in {"failed", "cancelled"} => payments'[id].status = payments[id].status]_vars

\* C3: in every reachable state deletedAt non-null implies status completed,
\* cancelled or failed.
DeletedOnlyWhenTerminal ==
  \A id \in Stored : payments[id].deletedAt # NoDate => payments[id].status \in TerminalStatuses

\* The single-item employee operations that change a payment.
EmployeeWriteOps ==
  {"validate", "reject", "cancel", "updateReason", "delete", "restore", "assign", "escalate", "addNote"}

\* The audit tags under which an operation may be recorded.
TagsOf(op) ==
  CASE op = "validate"     -> {"validate"}
    [] op = "reject"       -> {"reject"}
    [] op = "cancel"       -> {"cancel"}
    [] op = "updateReason" -> {"update_reason"}
    [] op = "delete"       -> {"trash"}
    [] op = "restore"      -> {"restore"}
    [] op = "assign"       -> {"assign", "unassign"}
    [] op = "escalate"     -> {"escalate", "deescalate"}
    [] OTHER               -> {"add_note"}

\* C4: every successful state-changing employee action on a payment makes
\* its auditLog exactly one entry longer, and the new last entry records
\* the acting employee and the tag of the action.
EveryEmployeeActionAudited ==
  [][(res'.op \in EmployeeWriteOps /\ res'.status = 200) =>
       LET before == payments[res'.id].auditLog
           after  == payments'[res'.id].auditLog
       IN /\ Len(after) = Len(before) + 1
          /\ SubSeq(after, 1, Len(before)) = before
          /\ after[Len(after)].actorId = res'.user
          /\ after[Len(after)].action \in TagsOf(res'.op)]_vars

\* C5: in every reachable state a payment whose status is completed,
\* failed or cancelled has a non-null processedAt.
TerminalHasProcessedAt ==
  \A id \in Stored : payments[id].status \in TerminalStatuses => payments[id].processedAt # NoDate

\* What the code does guarantee about a stored reasonCode: it is null or
\* passes isValidReasonCode, which compares after trim() and toLowerCase().
ReasonCodeAccepted ==
  \A id \in Stored : payments[id].reasonCode = Null \/ isValidReasonCode(payments[id].reasonCode)

\* C6: in every reachable state the reasonCode of a payment is null or one
\* of the seven entries of the Reason Code Registry; no operation stores a
\* code that is not in the registry.
ReasonCodeIsRegistryEntry ==
  \A id \in Stored :
    payments[id].reasonCode = Null \/ (\E i \in 1..Len(REASON_CODES) : payments[id].reasonCode = REASON_CODES[i])

\* The last entry of after is the only one added to before, and carries tag.
OneEntryAdded(before, after, user, tag) ==
  /\ Len(after) = Len(before) + 1
  /\ SubSeq(after, 1, Len(before)) = before
  /\ after[Len(after)].actorId = user
  /\ after[Len(after)].action = tag

BadRejectInput(reason, reasonCode) ==
  ~isValidReasonCode(reasonCode) \/ Falsy(reason) \/ Len(trim(reason)) < 3

\* The contract of a single-item reject, with stored(reason) as the value
\* that failureReason receives.
RejectContract(stored(_)) ==
  res'.op = "reject" =>
  \A user \in Employees, id \in IdInputs, reason \in ReasonInputs, reasonCode \in ReasonCodeInputs :
    employeeRejectPayment(user, id, reason, reasonCode) =>
      /\ BadRejectInput(reason, reasonCode) => (res'.status # 200 /\ payments' = payments)
      /\ res'.status # 200 => payments' = payments
      /\ res'.status = 200 =>
           /\ payments'[id].status = "failed"
           /\ payments'[id].failureReason = stored(reason)
           /\ payments'[id].reasonCode = reasonCode
           /\ payments'[id].processedAt # NoDate
           /\ OneEntryAdded(payments[id].auditLog, payments'[id].auditLog, user, "reject")

AsGiven(reason) == reason

\* C7 as stated: a reject with an unregistered reasonCode or a reason
\* shorter than 3 characters after trimming answers an error and leaves the
\* payment unchanged; a successful reject sets status=failed,
\* failureReason=reason, reasonCode=code, processedAt, and appends one
\* 'reject' audit entry.
RejectStoresReasonAsGiven == [][RejectContract(AsGiven)]_vars

\* C7 as amended: the same, with failureReason set to the trimmed reason.
RejectStoresTrimmedReason == [][RejectContract(trim)]_vars

\* A reject has succeeded on a padded reason, stored without the padding.
RejectedWithTrimmedReason ==
  /\ res.op = "reject" /\ res.status = 200
  /\ payments[res.id].status = "failed"
  /\ payments[res.id].failureReason = <<"f","r","a","u","d">>

\* C8: employee validate succeeds only on a pending or processing payment,
\* and then sets status=completed, processedAt and failureReason=null; on a
\* payment in any other status it answers an error and changes nothing.
ValidateContract ==
  [][res'.op = "validate" =>
       IF res'.id \in Stored /\ payments[res'.id].status \in {"pending", "processing"}
       THEN /\ res'.status = 200
            /\ payments'[res'.id].status = "completed"
            /\ payments'[res'.id].processedAt = clock'
            /\ payments'[res'.id].failureReason = Null
       ELSE /\ res'.status # 200
            /\ payments' = payments]_vars

\* A validate has succeeded.
ValidatedPayment ==
  /\ res.op = "validate" /\ res.status = 200
  /\ payments[res.id].status = "completed"
  /\ payments[res.id].processedAt = clock

\* C9: employee cancel succeeds only on a pending or processing payment and
\* with a registry-valid reasonCode; it then sets status=cancelled, the
\* reasonCode, failureReason (trimmed reason or null), processedAt, and
\* appends one 'cancel' audit entry. Otherwise it answers an error and the
\* payment is unchanged.
CancelContract ==
  [][res'.op = "cancel" =>
     \A user \in Employees, id \in IdInputs, reason \in ReasonInputs, reasonCode \in ReasonCodeInputs :
       employeeCancelPayment(user, id, reason, reasonCode) =>
         LET allowed == /\ id \in Stored
                        /\ payments[id].status \in {"pending", "processing"}
                        /\ isValidReasonCode(reasonCode)
         IN /\ ~allowed => res'.status # 200
            /\ res'.status # 200 => payments' = payments
            /\ res'.status = 200 =>
                 /\ payments'[id].status = "cancelled"
                 /\ payments'[id].reasonCode = reasonCode
                 /\ payments'[id].failureReason = (IF Falsy(reason) \/ trim(reason) = <<>> THEN Null ELSE trim(reason))
                 /\ payments'[id].processedAt = clock'
                 /\ OneEntryAdded(payments[id].auditLog, payments'[id].auditLog, user, "cancel")]_vars

\* A cancel without a reason has succeeded.
CancelledWithoutReason ==
  /\ res.op = "cancel" /\ res.status = 200
  /\ payments[res.id].status = "cancelled"
  /\ payments[res.id].failureReason = Null
  /\ payments[res.id].reasonCode # Null

\* C10: restoring a payment whose deletedAt is null is rejected and leaves
\* the payment, auditLog included, as it was; restoring a payment whose
\* deletedAt is set clears deletedAt, deletedByUserId and deletedByName and
\* appends one 'restore' audit entry. Both for the single-item restore and
\* for the bulk action 'restore'.
RestoreContract ==
  [][/\ (res'.op = "restore" /\ res'.id \in Stored) =>
          IF payments[res'.id].deletedAt = NoDate
          THEN res'.status # 200 /\ payments'[res'.id] = payments[res'.id]
          ELSE /\ res'.status = 200
               /\ payments'[res'.id].deletedAt = NoDate
               /\ payments'[res'.id].deletedByUserId = None
               /\ payments'[res'.id].deletedByName = None
               /\ OneEntryAdded(payments[res'.id].auditLog, payments'[res'.id].auditLog, res'.user, "restore")
     /\ (res'.op = "bulk" /\ res'.message = "restore") =>
          \A k \in 1..Len(res'.results) :
            LET id == res'.results[k].id
            IN (id \in Stored /\ payments[id].deletedAt = NoDate) =>
                 (~res'.results[k].ok /\ payments'[id] = payments[id])]_vars

----------------------------------------------------------------------------
(* Properties of the bulk action *)

\* A document with every audit entry reduced to its tag: the single-item
\* and the bulk handlers word the details of their entries differently.
EffectOf(doc) ==
  LET log == doc.auditLog
  IN [doc EXCEPT !.auditLog = [i \in DOMAIN log |-> log[i].action]]

\* What the single-item operation for a bulk action would do to payment id
\* in the current state: whether it succeeds, and the document it saves.
SingleItemWould(action, user, id, reason, reasonCode) ==
  LET payment == findById(id)
      found   == ObjectIdIsValid(id) /\ payment # NoPayment
      pre     == CASE action = "validate" -> ValidateAllowsStatus(payment.status)
                   [] action = "reject"   -> /\ ~BadRejectInput(reason, reasonCode)
                                             /\ ~RejectRefusesStatus(payment.status)
                   [] action = "cancel"   -> /\ CancelAllowsStatus(payment.status)
                                             /\ isValidReasonCode(reasonCode)
                   [] action = "trash"    -> DeleteAllowsStatus(payment.status)
                   [] OTHER               -> ~RestoreRefuses(payment)
      doc     == IF ~(found /\ pre) THEN payment
                 ELSE CASE action = "validate" -> ValidatedDoc(payment, Now)
                        [] action = "reject"   -> RejectedDoc(payment, user, reason, reasonCode, Now)
                        [] action = "cancel"   -> CancelledDoc(payment, user, reason, reasonCode, Now)
                        [] action = "trash"    -> TrashedDoc(payment, user, "soft-delete", Now)
                        [] OTHER               -> RestoredDoc(payment, user, "restore from Trash", Now)
  IN [ok |-> found /\ pre /\ SaveErrors(doc) = {}, doc |-> Saved(payment, doc, Now)]

\* C11: for every action in {validate, reject, cancel, trash, restore}, a
\* bulk request has on each payment of the batch the effect of the
\* single-item operation with the same reason and reasonCode, and reports
\* ok:true exactly when that operation would succeed. Stated for batches of
\* one id, where the payment is in the state the request found it in.
BulkMatchesSingleItem ==
  [][res'.op = "bulk" =>
     \A body \in BulkBodies, id \in IdInputs :
       employeeBulkAction(res'.user, body.action, <<id>>, body.reason, body.reasonCode) =>
         LET would == SingleItemWould(body.action, res'.user, id, body.reason, body.reasonCode)
         IN IF would.ok
            THEN /\ res'.status = 200
                 /\ res'.results = <<[id |-> id, ok |-> TRUE, error |-> None]>>
                 /\ EffectOf(payments'[id]) = EffectOf(would.doc)
            ELSE /\ payments' = payments
                 /\ res'.status = 200 => (Len(res'.results) = 1 /\ ~res'.results[1].ok)]_vars

\* The results array has one entry per id, in input order, with the error
\* of an unknown or malformed id, and every id reported ok has changed.
ResultsCoverIds(ids) ==
  /\ Len(res'.results) = Len(ids)
  /\ \A k \in 1..Len(ids) :
       LET r == res'.results[k] IN
       /\ r.id = ids[k]
       /\ ~ObjectIdIsValid(ids[k]) => (~r.ok /\ r.error = "invalid_id")
       /\ (ObjectIdIsValid(ids[k]) /\ ids[k] \notin Stored) => (~r.ok /\ r.error = "not_found")
       /\ r.ok => payments'[ids[k]] # payments[ids[k]]

\* C12: for every action of the bulk interface (validate, reject, cancel,
\* trash, restore) the answer carries exactly one results entry per element
\* of ids, in input order; an unknown id gives not_found, a malformed id
\* invalid_id, later ids are still processed, and every id reported ok:true
\* has been changed in the store.
BulkReportsEveryId ==
  [][(res'.op = "bulk" /\ res'.status = 200) =>
     \A body \in BulkBodies, ids \in BulkIdInputs :
       employeeBulkAction(res'.user, body.action, ids, body.reason, body.reasonCode) => ResultsCoverIds(ids)]_vars

\* C13: when the save of one payment is rejected during a bulk action, the
\* request as a whole still succeeds: it answers 200 with one results
\* entry per id, the failed id among them as a per-item failure.
BulkSaveFailureIsPerItem ==
  [][res'.op = "bulk" =>
     \A body \in BulkBodies, ids \in BulkIdInputs :
       (/\ body.action # "validate"
        /\ ids # <<>>
        /\ employeeBulkAction(res'.user, body.action, ids, body.reason, body.reasonCode))
         => (res'.status = 200 /\ Len(res'.results) = Len(ids))]_vars

----------------------------------------------------------------------------
(* Properties of ownership, authorization and visibility *)

\* C15: a customer's getPaymentById and self-cancel on a payment that
\* another user owns answer 404, return no document and leave the store
\* unchanged; the customer's listing returns only the caller's payments.
OwnershipIsolation ==
  [][/\ (/\ res'.op \in {"getById", "selfCancel"}
         /\ res'.id \in Stored
         /\ payments[res'.id].userId # res'.user)
          => (res'.status = 404 /\ res'.results = <<>> /\ payments' = payments)
     /\ res'.op = "listOwn"
          => \A k \in 1..Len(res'.results) : payments[res'.results[k]].userId = res'.user]_vars

\* A customer has asked for the payment of another customer and got 404.
ForeignPaymentNotFound ==
  /\ res.op = "getById" /\ res.status = 404
  /\ res.user \in Customers
  /\ res.id \in Stored
  /\ payments[res.id].userId \in Customers \ {res.user}

\* C16: customer self-cancel succeeds if and only if the payment belongs to
\* the caller and is pending; it then sets status=cancelled and, besides
\* the updatedAt of the save, nothing else (no reasonCode is asked for or
\* stored). Otherwise it answers an error and the payment is unchanged.
SelfCancelContract ==
  [][res'.op = "selfCancel" =>
       IF /\ res'.id \in Stored
          /\ payments[res'.id].userId = res'.user
          /\ payments[res'.id].status = "pending"
       THEN /\ res'.status = 200
            /\ payments' = [payments EXCEPT ![res'.id].status = "cancelled",
                                            ![res'.id].updatedAt = clock']
       ELSE /\ res'.status # 200
            /\ payments' = payments]_vars

\* A self-cancel of an own payment that was no longer pending was refused.
SelfCancelRefusedWhenNotPending ==
  /\ res.op = "selfCancel" /\ res.status = 400
  /\ payments[res.id].userId = res.user
  /\ payments[res.id].status \in {"completed", "failed", "cancelled"}

\* The operations of the employee router that the model serves.
EmployeeOps == EmployeeWriteOps \cup {"bulk", "list", "audit"}

\* C17: a request to an employee operation whose token does not carry the
\* role employee (a customer, or no role at all) is answered 403, changes
\* no payment and gets no payment data.
NonEmployeeForbidden ==
  [][(res'.op \in EmployeeOps /\ Role(res'.user) # "employee")
       => (res'.status = 403 /\ res'.results = <<>> /\ payments' = payments)]_vars

\* A customer was refused the soft-delete of a payment that an employee
\* could have deleted.
CustomerDeleteForbidden ==
  /\ res.op = "delete" /\ res.status = 403
  /\ res.user \in Customers
  /\ \E id \in Stored : DeleteAllowsStatus(payments[id].status) /\ payments[id].deletedAt = NoDate

\* Soft-delete and bulk requests of an employee whose header is not
\* accepted are refused with 401 and change nothing.
StepUpContract(accepted(_)) ==
  res'.op \in {"delete", "bulk"} =>
    \A user \in Employees, confirm \in ConfirmInputs :
      (~accepted(confirm) /\ (DeleteRoute(user, confirm) \/ BulkRoute(user, confirm)))
        => (res'.status = 401 /\ payments' = payments)

IsTrue(confirm) == confirm = <<"t","r","u","e">>

IsTrueInAnyCase(confirm) == toLowerCase(OrEmpty(confirm)) = <<"t","r","u","e">>

\* C18 as stated: the single-item soft-delete and every bulk action run
\* only when the header x-action-confirm equals 'true'; otherwise the
\* request is refused and no payment field changes.
StepUpNeedsExactTrue == [][StepUpContract(IsTrue)]_vars

\* C18 as amended: the same, for a header that equals 'true' once
\* lower-cased ('TRUE' and 'True' confirm as well).
StepUpNeedsTrueInAnyCase == [][StepUpContract(IsTrueInAnyCase)]_vars

\* An employee's soft-delete of a deletable payment was refused for lack of
\* the confirmation header.
DeleteRefusedWithoutConfirm ==
  /\ res.op = "delete" /\ res.status = 401
  /\ res.user \in Employees
  /\ \E id \in Stored : DeleteAllowsStatus(payments[id].status) /\ payments[id].deletedAt = NoDate

\* C19: the employee listing called without includeDeleted=true never
\* returns a payment whose deletedAt is set, whatever status, escalated and
\* assignedTo filters come with it; without other filters it returns every
\* payment that is not deleted, so a restored payment is listed again.
DefaultListingHidesDeleted ==
  [][(res'.op = "list" /\ res'.status = 200) =>
     \A q \in ListQueries :
       (q.includeDeleted # "true" /\ getAllPayments(res'.user, q)) =>
         /\ \A k \in 1..Len(res'.results) : payments[res'.results[k]].deletedAt = NoDate
         /\ (q.status = None /\ q.escalated = None /\ q.assignedTo = None) =>
              {res'.results[k] : k \in 1..Len(res'.results)} = {id \in Stored : payments[id].deletedAt = NoDate}]_vars

\* The listing returns a payment whose last audit entry is its restore.
RestoredPaymentListed ==
  /\ res.op = "list" /\ res.status = 200
  /\ \E k \in 1..Len(res.results) :
       LET log == payments[res.results[k]].auditLog
       IN Len(log) > 0 /\ log[Len(log)].action = "restore"

\* C20: the customer's own listing does not return a payment of the caller
\* whose deletedAt is set.
OwnListingHidesDeleted ==
  [][res'.op = "listOwn" =>
       \A k \in 1..Len(res'.results) : payments[res'.results[k]].deletedAt = NoDate]_vars

----------------------------------------------------------------------------
(* Properties of overlapping requests *)

Succeeded(r) == inflight[r].stage = "done" /\ inflight[r].status = 200

\* The save of request r is the latest save of its payment.
SavedLast(r) == Succeeded(r) /\ payments[inflight[r].id].processedAt = inflight[r].savedAt

\* C14 as stated: two overlapping requests can both pass their check and
\* both succeed, and the stored payment then reflects only the later save:
\* it is the copy of the request that saved last, the earlier request's
\* status change and audit entry overwritten.
RaceStoreIsLaterCopy ==
  \A r \in Racers : SavedLast(r) => payments[inflight[r].id] = inflight[r].saved

\* C14 as amended: the later save wins for the fields both requests
\* change (status, processedAt), and the fields only the earlier request
\* changed survive it: after a cancel has succeeded the payment carries its
\* reasonCode and its 'cancel' audit entry, whichever save came last.
RaceLaterSaveWinsSharedFields ==
  /\ \A r \in Racers :
       SavedLast(r) => payments[inflight[r].id].status = (IF r = "validate" THEN "completed" ELSE "cancelled")
  /\ Succeeded("cancel") =>
       LET req == inflight["cancel"]
           log == payments[req.id].auditLog
       IN /\ payments[req.id].reasonCode = req.reasonCode
          /\ \E i \in 1..Len(log) : log[i].action = "cancel" /\ log[i].timestamp = req.savedAt

\* A validate and a cancel that both loaded the same pending payment have
\* both succeeded, the validate last: the payment is completed and carries
\* the reasonCode of the cancel.
BothSucceededOnOnePayment ==
  /\ Succeeded("validate") /\ Succeeded("cancel")
  /\ inflight["validate"].id = inflight["cancel"].id
  /\ inflight["validate"].loaded.status = "pending"
  /\ inflight["cancel"].loaded.status = "pending"
  /\ SavedLast("validate")
  /\ payments[inflight["validate"].id].reasonCode # Null

----------------------------------------------------------------------------
(* Properties of the rate limiters *)

\* The identifiers a limiter is asked about.
AskedOf(limiter) == IF limiter = "form" THEN Identifiers ELSE Keys

\* How many of the admitted attempts fall inside the window that ends at t.
AdmittedInWindow(history, t, window) ==
  Cardinality({k \in 1..Len(history) : history[k] <= t /\ t - history[k] < window})

\* The ends of the windows that are looked at: every instant, and the last
\* millisecond of the window that starts at it.
WindowEnds(window) == Instants \cup {t + window - 1 : t \in Instants}

\* C24: a limiter admits an attempt if and only if fewer than its maximum of
\* admitted attempts fall inside the window ending now, so no identifier
\* is admitted more than the maximum in any window of that length; the
\* identifiers are counted independently (a call changes the record of its
\* own identifier only), and a denied identifier is admitted again once
\* enough of its attempts have left the window.
LimiterSlidingWindow ==
  /\ [](\A limiter \in Limiters :
          \A identifier \in AskedOf(limiter), t \in WindowEnds(WindowOf(limiter)) :
            AdmittedInWindow(admitted[limiter][identifier], t, WindowOf(limiter)) <= MaxOf(limiter))
  /\ [][verdict' # verdict =>
          LET limiter == verdict'.limiter
              identifier == verdict'.identifier
          IN /\ verdict'.allowed <=>
                  AdmittedInWindow(admitted[limiter][identifier], now, WindowOf(limiter)) < MaxOf(limiter)
             /\ \A other \in Identifiers \ {identifier} : attempts'[other] = attempts[other]
             /\ \A other \in Keys \ {identifier} : rateLimits'[other] = rateLimits[other]
             /\ limiter = "form" => rateLimits' = rateLimits
             /\ limiter = "simple" => attempts' = attempts]_vars

\* An identifier that used up the form limiter at the start has been
\* admitted again at the end of the window, while its attempts made one
\* millisecond after the start still count.
ReadmittedAfterWindow ==
  /\ verdict.limiter = "form" /\ verdict.allowed /\ verdict.at = WindowMs
  /\ LET history == admitted["form"][verdict.identifier]
     IN /\ Len(history) > MaxAttempts
        /\ AdmittedInWindow(history, 1, WindowMs) = MaxAttempts
        /\ \E k \in 1..Len(history) : history[k] = 1

----------------------------------------------------------------------------
(* Properties of Trash *)

\* The fields that belong to the review of a payment, not to Trash.
ReviewFields ==
  {"status", "reasonCode", "failureReason", "processedAt", "assignedToUserId", "assignedToName",
   "escalated", "escalatedAt", "escalationNotes", "notes"}

\* A step of a soft-delete or a restore, single-item or bulk.
TrashStep ==
  \/ res'.op \in {"delete", "restore"}
  \/ res'.op = "bulk" /\ res'.message \in {"trash", "restore"}

\* Soft-delete and restore never change the review fields.
TrashKeepsReviewFields ==
  TrashStep => \A id \in Stored, field \in ReviewFields : payments'[id][field] = payments[id][field]

\* Exactly one save has happened since the snapshot, and it has appended a
\* 'trash' entry to payment id: the snapshot is the state before its
\* soft-delete.
TrashedSinceSnapshot(id) ==
  /\ snapshot.clock + 1 = clock
  /\ snapshot.payments[id] # NoPayment
  /\ LET log == payments[id].auditLog
     IN /\ log # <<>>
        /\ log[Len(log)].action = "trash"
        /\ SubSeq(log, 1, Len(log) - 1) = snapshot.payments[id].auditLog

\* This step is one save, which appends a 'restore' entry to payment id.
RestoredNow(id) ==
  /\ clock' = clock + 1
  /\ LET log == payments'[id].auditLog
     IN /\ Len(log) = Len(payments[id].auditLog) + 1
        /\ log[Len(log)].action = "restore"

\* C21 as stated: soft-delete and restore never change status, reasonCode,
\* failureReason, processedAt, assignment, escalation or notes, and a
\* soft-delete followed by a restore leaves the payment equal to its state
\* before the soft-delete except for the two appended audit entries.
TrashRoundTripIsIdentity ==
  [][/\ TrashKeepsReviewFields
     /\ \A id \in Stored :
          (TrashedSinceSnapshot(id) /\ RestoredNow(id)) =>
            payments'[id] = [snapshot.payments[id] EXCEPT !.auditLog = payments'[id].auditLog]]_vars

\* C21 as amended: the same frame; a soft-delete of a payment that is not
\* in Trash, followed by a restore, leaves the payment equal to its state
\* before the soft-delete except for the two appended audit entries and
\* the updatedAt of the last save.
TrashRoundTripKeepsAllButUpdatedAt ==
  [][/\ TrashKeepsReviewFields
     /\ \A id \in Stored :
          (TrashedSinceSnapshot(id) /\ RestoredNow(id) /\ snapshot.payments[id].deletedAt = NoDate) =>
            payments'[id] = [snapshot.payments[id] EXCEPT !.auditLog = payments'[id].auditLog,
                                                         !.updatedAt = clock']]_vars

\* A completed payment was copied, moved to Trash and restored.
RestoredAfterTrash ==
  /\ res.op = "restore" /\ res.status = 200
  /\ snapshot.clock + 2 = clock
  /\ snapshot.payments[res.id] # NoPayment
  /\ snapshot.payments[res.id].status = "completed"
  /\ snapshot.payments[res.id].deletedAt = NoDate
  /\ LET log == payments[res.id].auditLog
     IN Len(log) = 2 /\ log[1].action = "trash" /\ log[2].action = "restore"

----------------------------------------------------------------------------
(* Properties of the collection *)

\* C22: payments are never physically deleted: the set of payment ids in the
\* store only grows; no customer or employee operation, soft-delete and bulk
\* 'trash' included, removes a payment record.
NeverPhysicallyDeleted ==
  [][\A id \in Stored : payments'[id] # NoPayment /\ payments'[id].createdAt = payments[id].createdAt]_vars

\* A soft-delete has succeeded and the payment is still in the store, with
\* its deletedAt set.
TrashedPaymentStillStored ==
  /\ \/ res.op = "delete" /\ res.status = 200 /\ res.id \in Stored /\ payments[res.id].deletedAt # NoDate
     \/ /\ res.op = "bulk" /\ res.status = 200 /\ res.message = "trash"
        /\ \E k \in 1..Len(res.results) :
             /\ res.results[k].ok
             /\ res.results[k].id \in Stored
             /\ payments[res.results[k].id].deletedAt # NoDate
  /\ Stored # {}

----------------------------------------------------------------------------
(* Properties of the status *)

\* C23: the status processing is not reachable: every payment is created
\* with status pending, the status of a stored payment is always one of
\* pending, completed, failed and cancelled, and a payment that has left
\* pending never returns to it.
ProcessingUnreachable ==
  /\ [](\A id \in Stored : payments[id].status \in {"pending", "completed", "failed", "cancelled"})
  /\ [][\A id \in DOMAIN payments :
          /\ (payments[id] = NoPayment /\ payments'[id] # NoPayment) => payments'[id].status = "pending"
          /\ (payments[id] # NoPayment /\ payments[id].status # "pending") => payments'[id].status # "pending"]_vars

\* A payment has left pending and has been changed again afterwards.
ChangedAgainAfterPending ==
  \E id \in Stored :
    /\ payments[id].status \in {"failed", "cancelled"}
    /\ Len(payments[id].auditLog) = 2
    /\ payments[id].auditLog[1].action \in {"reject", "cancel"}

----------------------------------------------------------------------------
(* Properties of the export *)

\* C25: for every combination of filters, exportCSV renders exactly the
\* payments that listAll returns over all its pages for the same filters,
\* in the same createdAt-descending order.
ExportMatchesListing ==
  [][res'.op = "export" =>
       \A user \in Employees, q \in ExportQueries :
         exportPayments(user, q) =>
           res'.results = find({id \in Stored : ListFilter(user, q, payments[id])})]_vars

----------------------------------------------------------------------------
(* Properties of createPayment *)

FieldsOf(errors) == {errors[i] : i \in 1..Len(errors)}

\* The fields of a body that fail a check of the controller.
ControllerFailing(body) ==
  LET numericAmount == parseFloat(body.amount)
  IN {RequiredFields[i] : i \in {k \in 1..Len(RequiredFields) : Falsy(body[RequiredFields[k]])}}
     \cup (IF ~Falsy(body.recipientIBAN) /\ ~validateIBAN(body.recipientIBAN) THEN {"recipientIBAN"} ELSE {})
     \cup (IF ~Falsy(body.recipientSWIFT) /\ ~validateSWIFT(body.recipientSWIFT) THEN {"recipientSWIFT"} ELSE {})
     \cup (IF numericAmount.nan \/ numericAmount.value <= 0 \/ numericAmount.value > MaxAmount * AmountScale
           THEN {"amount"} ELSE {})
     \cup (IF ~Falsy(body.currency) /\ ~validateCurrency(body.currency) THEN {"currency"} ELSE {})

\* The fields of a body that pass the controller and fail a validator of
\* PaymentSchema.
SchemaFailing(body) ==
  LET numericAmount == parseFloat(body.amount)
      TooLong(field, max) == ~Falsy(body[field]) /\ (trim(body[field]) = <<>> \/ Len(trim(body[field])) > max)
  IN (IF ~numericAmount.nan /\ numericAmount.value > 0 /\ numericAmount.value < SchemaMinAmount
      THEN {"amount"} ELSE {})
     \cup (IF ~Falsy(body.currency) /\ validateCurrency(body.currency)
              /\ toUpperCase(body.currency) \notin SchemaCurrencies
           THEN {"currency"} ELSE {})
     \cup (IF TooLong("recipientName", 100) THEN {"recipientName"} ELSE {})
     \cup (IF TooLong("reference", 140) THEN {"reference"} ELSE {})
     \cup (IF TooLong("purpose", 255) THEN {"purpose"} ELSE {})

\* What createPayment persists: nothing when a check fails, and exactly one
\* new payment of the caller with status pending when none does.
CreatePersists(user, body) ==
  IF ControllerFailing(body) \cup SchemaFailing(body) # {}
  THEN res'.status = 400 /\ payments' = payments
  ELSE /\ res'.status = 201
       /\ res'.id \notin Stored
       /\ \A id \in DOMAIN payments :
            IF id = res'.id
            THEN payments'[id] # NoPayment /\ payments'[id].userId = user /\ payments'[id].status = "pending"
            ELSE payments'[id] = payments[id]

StoredIbanSwiftNormalized ==
  \A id \in Stored :
    LET iban == payments[id].recipientIBAN
        swift == payments[id].recipientSWIFT
    IN /\ iban = toUpperCase(iban) /\ stripSpaces(iban) = iban
       /\ swift = toUpperCase(swift) /\ stripSpaces(swift) = swift
       /\ Len(swift) \in {8, 11}

\* C28: every stored payment has an amount that is positive, at most
\* 1,000,000 and has at most 2 decimal places (amounts are counted in
\* thousandths, so the third decimal is the last digit).
StoredAmountWithinLimits ==
  \A id \in Stored :
    /\ payments[id].amount > 0
    /\ payments[id].amount <= MaxAmount * AmountScale
    /\ payments[id].amount % (AmountScale \div 100) = 0

----------------------------------------------------------------------------
(* Properties of updateReason *)

\* C29: updateReason succeeds only when the status is cancelled or failed
\* and the trimmed reason has at least 3 characters; it then sets
\* failureReason, replaces reasonCode only when the supplied code is
\* registry-valid (otherwise reasonCode keeps its value), never changes the
\* status, and appends one 'update_reason' audit entry. In any other case it
\* answers an error and leaves the payment unchanged.
UpdateReasonContract ==
  [][res'.op = "updateReason" =>
       \A user \in Employees, id \in IdInputs, reason \in ReasonInputs, reasonCode \in ReasonCodeInputs :
         employeeUpdateReason(user, id, reason, reasonCode) =>
           LET allowed == /\ id \in Stored
                          /\ payments[id].status \in {"cancelled", "failed"}
                          /\ ~Falsy(reason) /\ Len(trim(reason)) >= 3
           IN /\ ~allowed => res'.status # 200
              /\ res'.status # 200 => payments' = payments
              /\ res'.status = 200 =>
                   /\ payments'[id].failureReason = trim(reason)
                   /\ payments'[id].reasonCode =
                        (IF isValidReasonCode(reasonCode) THEN reasonCode ELSE payments[id].reasonCode)
                   /\ payments'[id].status = payments[id].status
                   /\ OneEntryAdded(payments[id].auditLog, payments'[id].auditLog, user, "update_reason")]_vars

\* The reason of a cancelled payment was updated with a reasonCode outside
\* the registry, and the payment has kept the reasonCode of its cancel.
ReasonUpdatedCodeKept ==
  /\ res.op = "updateReason" /\ res.status = 200
  /\ LET doc == payments[res.id]
         log == doc.auditLog
     IN /\ doc.status = "cancelled"
        /\ doc.reasonCode # Null /\ isValidReasonCode(doc.reasonCode)
        /\ log[Len(log)].action = "update_reason"
        /\ ~isValidReasonCode(Tail(log[Len(log)].details))

----------------------------------------------------------------------------
(* Properties of validateIBAN *)

\* The string validateIBAN looks at: without white space, in upper case.
CleanIban(iban) == IF Falsy(iban) THEN <<>> ELSE toUpperCase(stripSpaces(iban))

\* Two letters, two digits, then letters and digits.
IbanShape(s) ==
  /\ Len(s) >= 5
  /\ s[1] \in UpperSet /\ s[2] \in UpperSet
  /\ s[3] \in Digits /\ s[4] \in Digits
  /\ \A i \in 5..Len(s) : s[i] \in UpperSet \cup Digits

\* C30: validateIBAN implements the ISO 7064 MOD 97-10 check: it accepts
\* GB29NWBK60161331926819; for every position holding a digit and every
\* different digit put in that position, the mutated string is rejected;
\* strings whose length is outside 15..34 or that do not consist of two
\* letters, two digits and then alphanumerics are rejected.
IbanChecksum ==
  checked # NotChecked =>
    /\ checked.iban = ExampleIban => checked.valid
    /\ checked.iban \in DigitMutations => ~checked.valid
    /\ checked.valid =>
         /\ Len(CleanIban(checked.iban)) \in 15..34
         /\ IbanShape(CleanIban(checked.iban))

\* The example with its last digit changed from 9 to 8 has been rejected.
MutatedIbanRejected ==
  /\ checked.iban = [ExampleIban EXCEPT ![Len(ExampleIban)] = "8"]
  /\ ~checked.valid

----------------------------------------------------------------------------
(* Properties of the notes *)

\* t occurs in s.
Contains(s, t) == \E i \in 1..(Len(s) - Len(t) + 1) : SubSeq(s, i, i + Len(t) - 1) = t

\* The positions of s where an IBAN-like token starts: two letters, two
\* digits, then at least 11 letters or digits, in either case.
TokenStarts(s) ==
  {i \in 1..(Len(s) - 14) :
     /\ s[i] \in Letters /\ s[i + 1] \in Letters
     /\ s[i + 2] \in Digits /\ s[i + 3] \in Digits
     /\ \A k \in (i + 4)..(i + 14) : s[k] \in Letters \cup Digits}

\* What a stored note shows in place of an IBAN.
IbanStandIn == redactSensitive(ExampleIban)

\* The note and the audit entry a successful addNote has just appended.
LastNote(id) == payments'[id].notes[Len(payments'[id].notes)]

LastAudit(id) == payments'[id].auditLog[Len(payments'[id].auditLog)]

\* C31: a note stored through addNote never contains the literal IBAN that
\* was present in the submitted text: every IBAN-like token (two letters,
\* two digits, then 11 to 30 alphanumerics) is replaced by a fixed
\* placeholder before the note is appended, and the audit entry records
\* only the length of the redacted text.
NoteNeverHoldsIban ==
  [][ (res'.op = "addNote" /\ res'.status = 200) =>
        \A text \in NoteTexts :
          employeeAddNote(res'.user, res'.id, text, <<>>) =>
            LET submitted == trim(text)
                note == LastNote(res'.id)
            IN /\ Len(payments'[res'.id].notes) = Len(payments[res'.id].notes) + 1
               /\ TokenStarts(note.text) = {}
               /\ \A i \in TokenStarts(submitted) :
                    ~Contains(note.text, SubSeq(submitted, i, i + 14))
               /\ TokenStarts(submitted) # {} => Contains(note.text, IbanStandIn)
               /\ LastAudit(res'.id).action = "add_note"
               /\ LastAudit(res'.id).details = <<"length=", ToString(Len(note.text))>> ]_vars

\* The note "IBAN GB29NWBK60161331926819" has been stored with the stand-in.
NoteStoredRedacted ==
  /\ res.op = "addNote" /\ res.status = 200
  /\ \E k \in 1..Len(payments[res.id].notes) :
       payments[res.id].notes[k].text = <<"I","B","A","N"," ">> \o IbanStandIn

----------------------------------------------------------------------------
(* Properties of the queue health *)

\* The stored payments that are open (pending or processing, not in the
\* Trash) and whose age at t lies in ages.
OpenAged(t, ages) ==
  {id \in Stored :
     /\ payments[id].deletedAt = NoDate
     /\ payments[id].status \in {"pending", "processing"}
     /\ t - payments[id].createdAt \in ages}

\* C32: queueHealth counts two disjoint sets of non-deleted payments in
\* status pending or processing: stale are those created more than 48h
\* before now, at risk those created more than 24h and at most 48h before
\* now. No payment is counted in both, and terminal or soft-deleted payments
\* are counted in neither.
QueueHealthCounts ==
  [][ (res'.op = "queueHealth" /\ res'.status = 200) =>
        \A t \in HealthInstants :
          getQueueHealth(res'.user, t) =>
            /\ res'.results[1] = Cardinality(OpenAged(t, (StaleAfterMs + 1)..(t + 1)))
            /\ res'.results[2] = Cardinality(OpenAged(t, (AtRiskAfterMs + 1)..StaleAfterMs))
            /\ res'.results[1] + res'.results[2] <= Cardinality(OpenAged(t, 0..(t + 1))) ]_vars

\* A pending payment between 24 and 48 hours old has been counted at risk
\* and not stale.
CountedAtRiskAtBoundary ==
  /\ res.op = "queueHealth" /\ res.status = 200
  /\ res.results = <<0, 1>>
  /\ \E id \in Stored : payments[id].status = "pending" /\ payments[id].createdAt = clock

----------------------------------------------------------------------------
(* Properties of the paged listing *)

\* The place of stamp x when matched is ordered newest first.
RankIn(matched, x) == Cardinality({y \in matched : y >= x})

\* C33: for any page and limit inputs (missing, non-numeric, zero, negative
\* or huge), listAll uses a page in 1..1000 and a limit in 1..100, returns
\* at most limit payments ordered by createdAt descending starting at offset
\* (page-1)*limit of the filtered set, and reports total as the size of the
\* filtered set and pages = ceil(total/limit).
PaginationBounded ==
  listing # NotListed =>
    LET page   == listing.pagination.page
        limit  == listing.pagination.limit
        total  == listing.pagination.total
        pages  == listing.pagination.pages
        data   == listing.data
        offset == (page - 1) * limit
    IN /\ page \in 1..1000
       /\ limit \in 1..100
       /\ Len(data) <= limit
       /\ \A i, j \in 1..Len(data) : i < j => data[i] > data[j]
       /\ {data[i] : i \in 1..Len(data)} =
            {x \in listing.matched : RankIn(listing.matched, x) \in (offset + 1)..(offset + limit)}
       /\ total = Cardinality(listing.matched)
       /\ pages * limit >= total
       /\ pages = 0 \/ (pages - 1) * limit < total

\* The second page of two has been served from three payments: the oldest
\* alone.
SecondPageServed ==
  /\ listing.matched = {1, 2, 3}
  /\ listing.pagination = [page |-> 2, limit |-> 2, total |-> 3, pages |-> 2]
  /\ listing.data = <<1>>

----------------------------------------------------------------------------
(* Properties of the histories *)

\* s is the beginning of t.
IsPrefix(s, t) == Len(s) <= Len(t) /\ s = SubSeq(t, 1, Len(s))

\* C34: under any sequence of non-overlapping operations a payment's
\* auditLog and notes are append-only: the auditLog (and the notes list)
\* before an operation is a prefix of the one after it; no operation
\* removes, reorders or rewrites an existing entry.
HistoriesAppendOnly ==
  [][ \A id \in Stored :
        /\ payments'[id] # NoPayment
        /\ IsPrefix(payments[id].auditLog, payments'[id].auditLog)
        /\ IsPrefix(payments[id].notes, payments'[id].notes) ]_vars

\* A payment carries two audit entries and two notes, the later one last.
HistoriesGrown ==
  \E id \in Stored :
    /\ Len(payments[id].auditLog) = 2
    /\ Len(payments[id].notes) = 2
    /\ payments[id].notes[1].createdAt < payments[id].notes[2].createdAt

----------------------------------------------------------------------------
(* Properties of the reason data *)

----------------------------------------------------------------------------
(* Properties of notes, assignment and escalation *)

\* The fields each of the three operations writes; every save also appends
\* to auditLog and moves updatedAt.
OwnFields(op) ==
  {"auditLog", "updatedAt"} \cup
    (CASE op = "addNote" -> {"notes"}
       [] op = "assign"  -> {"assignedToUserId", "assignedToName"}
       [] OTHER          -> {"escalated", "escalatedAt", "escalationNotes"})

\* C36: addNote, assign/unassign and escalate/deescalate are allowed in
\* every status and on soft-deleted payments, and change only their own
\* fields: they never change status, processedAt, reasonCode, failureReason,
\* deletedAt or deletedBy*, and after escalate/deescalate escalated is true
\* exactly when escalatedAt is non-null. A refusal comes from the caller's
\* role, the id or the text alone.
SideOperationsFrame ==
  [][ res'.op \in {"addNote", "assign", "escalate"} =>
        /\ res'.status \in {200, 400, 403, 404}
        /\ res'.status = 403 => Role(res'.user) # "employee"
        /\ res'.status = 404 => findById(res'.id) = NoPayment
        /\ res'.status = 400 =>
             ~ObjectIdIsValid(res'.id) \/ res'.message = "Note text is required."
        /\ res'.status # 200 => payments' = payments
        /\ res'.status = 200 =>
             /\ \A f \in (DOMAIN payments[res'.id]) \ OwnFields(res'.op) :
                  payments'[res'.id][f] = payments[res'.id][f]
             /\ \A f \in {"status", "processedAt", "reasonCode", "failureReason",
                          "deletedAt", "deletedByUserId", "deletedByName"} :
                  payments'[res'.id][f] = payments[res'.id][f]
             /\ res'.op = "escalate" =>
                  (payments'[res'.id].escalated = TRUE <=> payments'[res'.id].escalatedAt # NoDate) ]_vars

\* A cancelled payment in the Trash has been de-escalated.
TrashedPaymentDeescalated ==
  /\ res.op = "escalate" /\ res.status = 200
  /\ payments[res.id].status = "cancelled"
  /\ payments[res.id].deletedAt # NoDate
  /\ payments[res.id].escalated = FALSE /\ payments[res.id].escalatedAt = NoDate
  /\ payments[res.id].auditLog[Len(payments[res.id].auditLog)].action = "deescalate"

----------------------------------------------------------------------------
(* Properties of the login lockout *)

LockoutBoundsGuesses == evaluated <= 5

====
